---- MODULE Spec2Model ----
(***************************************************************************)
(* Model of the fractal knowledge store of                                 *)
(* src/ARCHON/Data Storage/knowledge_store.py (FractalKnowledgeStore): the *)
(* node cache, the two insertion-only spatial indices, the SQLite nodes    *)
(* and relations tables, and the public operations on them.                *)
(*                                                                         *)
(* Conventions.                                                            *)
(*  - A Python dict is a sequence of entries in insertion order.           *)
(*  - A SQLite table is the sequence of its rows in rowid order; INSERT OR *)
(*    REPLACE deletes the conflicting row and appends the new one, and,    *)
(*    with PRAGMA foreign_keys = ON, the delete cascades to the relations  *)
(*    rows that reference the replaced node.                               *)
(*  - A k-d tree is an insertion-only structure, so an index is modelled   *)
(*    by the sequence of (node_id, point) insertions that built it.        *)
(*  - Floats are scaled integers: weights in tenths, coordinates in        *)
(*    tenths or hundredths.                                                *)
(*  - A database write may raise sqlite3.Error (the code catches it); the  *)
(*    model injects such a fault nondeterministically, at most MaxFaults   *)
(*    times in a run.  Database reads are taken to succeed.                *)
(***************************************************************************)
EXTENDS Integers, Sequences, FiniteSets, TLC

\* ------------------------------------------------------------------ bounds
\* Number of node ids uuid4 hands out in a run.
MaxNodes == 2
\* Number of mutating calls (create_node, store_node, add_relation) in a run.
MaxOps == 3
\* Number of times a store object is constructed on the database file.
MaxSessions == 2
\* Number of injected sqlite3.Error faults in a run.
MaxFaults == 1
\* Number of distinct values of uuid4().hex[:4] in a relation row id.
UuidSuffixes == 2
\* The configured cache_size (config["cache_size"]).
cache_size == 1

\* ------------------------------------------------------------------ inputs
NodeIds == 1..MaxNodes
\* parent_id = None, and the "no node" of get_node.
NoId == 0

\* (label, trinity vector in tenths, complex position in hundredths) given to
\* create_node.  Labels are sequences of characters, so that str.lower() and
\* the substring test of find_by_query can be computed.
NodeInputs ==
    { [label |-> <<"A", "b">>, trinity |-> <<8, 7, 9>>, c |-> <<72, 70>>],
      [label |-> <<"b">>, trinity |-> <<6, 6, 6>>, c |-> <<36, 60>>] }

EmptyMeta == [k \in {} |-> 0]

\* (relation_type, strength in tenths, metadata) given to add_relation.
RelationInputs ==
    { [relation_type |-> "entails", strength |-> 7, metadata |-> EmptyMeta],
      [relation_type |-> "entails", strength |-> 10, metadata |-> [note |-> 1]] }

RelationTypes == { "entails", "derived_from" }
Directions == { "outgoing", "incoming", "both" }
\* relation_type = None in get_relations.
AnyType == "*"

\* ------------------------------------------------------------------- state
VARIABLES
    persistence_enabled,  \* self.persistence_enabled
    conn,                 \* self.conn is not None
    nodes,                \* self.nodes: the cache, a dict in insertion order
    trinity_index,        \* self.trinity_index: its insertions, in order
    complex_index,        \* self.complex_index: its insertions, in order
    db_nodes,             \* the nodes table, rows in rowid order
    db_relations,         \* the relations table, rows in rowid order
    next_id,              \* the next id uuid4 generates (ids are fresh)
    ops,                  \* mutating calls made so far
    faults,               \* sqlite3.Error faults injected so far
    session,              \* store objects constructed so far
    closed,               \* history: close() was called on this store object
    added,                \* history: nodes created and relations added in this session
    written,              \* history: what the database accepted, by node id and by triple
    last,                 \* history: the last call that was not a read, and its result
    kd_dims,              \* a KDTree on its own: self.k
    kd_index,             \* a KDTree on its own: its insertions, in order
    kd_last,              \* a KDTree on its own: the last query and what it returned
    lam_expr,             \* the lambda Evaluator: the expression given to it
    lam_last,             \* the lambda Evaluator: the last call and what it returned
    fn_last,              \* the value computations: the last call and what it returned
    gate_now,             \* the authorization gate: the time, in seconds
    gate_ctx,             \* the authorization gate: the LockContext of the caller
    gate_ran,             \* the authorization gate: times the gated body has run
    gate_last,            \* the authorization gate: the last call and how it ended
    wk_queue,             \* the worker pool: task_queue, first put first
    wk_threads,           \* the worker pool: where each thread of _workers is
    wk_runs,              \* the worker pool: calls of func(*args) and how the last ended, by task
    wk_unfinished,        \* the worker pool: task_queue.unfinished_tasks
    wk_submitted,         \* the worker pool: calls of submit_async so far
    wk_shutdown,          \* the worker pool: where the call of shutdown_workers is
    mon_now,              \* the compliance monitor: the time, in waits of the loop
    mon_subsystems,       \* the compliance monitor: self.subsystems
    mon_pass              \* the compliance monitor: history of the last pass of the loop

vars == << persistence_enabled, conn, nodes, trinity_index, complex_index,
           db_nodes, db_relations, next_id, ops, faults, session, closed,
           added, written, last >>

\* The variables of what is modelled beside the store.
kd_vars == << kd_dims, kd_index, kd_last >>
lam_vars == << lam_expr, lam_last >>
fn_vars == << fn_last >>
gate_vars == << gate_now, gate_ctx, gate_ran, gate_last >>
wk_vars == << wk_queue, wk_threads, wk_runs, wk_unfinished, wk_submitted,
              wk_shutdown >>
mon_vars == << mon_now, mon_subsystems, mon_pass >>
late_vars == << wk_vars, mon_vars >>
more_vars == << fn_vars, gate_vars, late_vars >>
other_vars == << kd_vars, lam_vars, more_vars >>

\* No query was made on the tree as it is.
NoQuery == [point |-> <<>>, k |-> 0, found |-> <<>>]

\* No KDTree on its own is in use.
KDIdle ==
    /\ kd_dims = 2
    /\ kd_index = <<>>
    /\ kd_last = NoQuery

\* No call of the Evaluator was made on the expression.
NoCall == [op |-> "none"]

\* No Evaluator is in use.
LamIdle ==
    /\ lam_expr = [type |-> "expr"]
    /\ lam_last = NoCall

\* No value computation was called.
FnIdle == fn_last = NoCall

\* No LockContext was issued and no gated operation called.
GateIdle ==
    /\ gate_now = 0
    /\ gate_ctx = [token |-> ""]
    /\ gate_ran = 0
    /\ gate_last = NoCall

\* No worker pool was imported.
WkIdle ==
    /\ wk_queue = <<>>
    /\ wk_threads = <<>>
    /\ wk_runs = <<>>
    /\ wk_unfinished = 0
    /\ wk_submitted = 0
    /\ wk_shutdown = NoCall

\* No SystemInitializer was constructed.
MonIdle ==
    /\ mon_now = 0
    /\ mon_subsystems = <<>>
    /\ mon_pass = NoCall

\* The worker pool and the compliance monitor, not in use.
LateIdle == WkIdle /\ MonIdle

\* The components added to these three, not in use.
MoreIdle == FnIdle /\ GateIdle /\ LateIdle

\* What is modelled beside the store, not in use.
OthersIdle == KDIdle /\ LamIdle /\ MoreIdle

\* --------------------------------------------------------- sequences, dicts
RECURSIVE SeqToSet(_)
SeqToSet(s) == IF s = <<>> THEN {} ELSE {Head(s)} \cup SeqToSet(Tail(s))

\* metadata.get(key, default)
DictGet(d, key, default) == IF key \in DOMAIN d THEN d[key] ELSE default

\* {**d, key: value}
DictSet(d, key, value) == (key :> value) @@ d

\* The OntologicalNode None stands for.
None == [node_id |-> NoId, label |-> <<>>, trinity_vector |-> <<>>, c |-> <<>>,
         relationships |-> <<>>]

\* node_id in self.nodes
InCache(cache, node_id) == \E i \in DOMAIN cache : cache[i].node_id = node_id

\* self.nodes[node_id]
CacheGet(cache, node_id) ==
    cache[CHOOSE i \in DOMAIN cache : cache[i].node_id = node_id]

\* self.nodes[node.node_id] = node: a new key goes last, an old key keeps its place.
CachePut(cache, node) ==
    IF InCache(cache, node.node_id)
    THEN [i \in DOMAIN cache |->
            IF cache[i].node_id = node.node_id THEN node ELSE cache[i]]
    ELSE Append(cache, node)

\* ------------------------------------------------------------ the database
\* The store as the operations thread it: cache, indices and tables.
StoreState ==
    [nodes |-> nodes, trinity_index |-> trinity_index,
     complex_index |-> complex_index, db_nodes |-> db_nodes,
     db_relations |-> db_relations]

\* self.persistence_enabled and self.conn
Persistent == persistence_enabled /\ conn

\* A row of the nodes table with this id exists.
HasRow(rows, node_id) == \E i \in DOMAIN rows : rows[i].id = node_id

RowOf(rows, node_id) == rows[CHOOSE i \in DOMAIN rows : rows[i].id = node_id]

\* node.to_dict() as _persist_node stores it: the metadata blob and the
\* indexing columns.  The blob's copy of the relationships is left out: the
\* only reader, _load_node_from_db, replaces them by the relations table's.
NodeToDict(node) ==
    [id |-> node.node_id, label |-> node.label,
     trinity |-> node.trinity_vector, c |-> node.c]

\* OntologicalNode.from_dict(node_data), then node.node_id = node_id.
NodeFromDict(row) ==
    [node_id |-> row.id, label |-> row.label, trinity_vector |-> row.trinity,
     c |-> row.c, relationships |-> <<>>]

\* node.add_relationship(relation_type, target_id, metadata)
add_relationship(relationships, relation_type, target_id, metadata) ==
    Append(relationships, <<relation_type, target_id, metadata>>)

RECURSIVE RelationshipsOfRows(_)
RelationshipsOfRows(rows) ==
    IF rows = <<>> THEN <<>>
    ELSE LET rest == RelationshipsOfRows(SubSeq(rows, 1, Len(rows) - 1))
             r == rows[Len(rows)]
         IN add_relationship(rest, r.relation_type, r.target_id, r.metadata)

\* _load_relationships_for_node: the relationships of the rows whose source
\* is the node, target_id, relation_type and metadata only (not the weight).
_load_relationships_for_node(st, node_id) ==
    RelationshipsOfRows(
        SelectSeq(st.db_relations, LAMBDA r : r.source_id = node_id))

\* _load_node_from_db
_load_node_from_db(st, node_id) ==
    IF ~conn \/ ~HasRow(st.db_nodes, node_id) THEN None
    ELSE [NodeFromDict(RowOf(st.db_nodes, node_id)) EXCEPT
            !.relationships = _load_relationships_for_node(st, node_id)]

\* INSERT OR REPLACE INTO nodes: the old row of the id is deleted, which
\* cascades to the relations rows that reference it, and the new row appended.
\* With fault the statement raises and the transaction leaves nothing.
_persist_node(st, node, fault) ==
    IF fault THEN st
    ELSE LET id == node.node_id
             replaced == HasRow(st.db_nodes, id)
         IN [st EXCEPT
               !.db_nodes =
                   Append(SelectSeq(st.db_nodes, LAMBDA r : r.id # id),
                          NodeToDict(node)),
               !.db_relations =
                   IF replaced
                   THEN SelectSeq(st.db_relations,
                                  LAMBDA r : r.source_id # id /\ r.target_id # id)
                   ELSE st.db_relations]

\* KDTree.insert: the tree keeps every point ever inserted.
insert(index, node_id, point) == Append(index, <<node_id, point>>)

\* store_node with the insertion into the trinity index left out.
store_node_unindexed(st, node, fault) ==
    LET st1 == [st EXCEPT
                  !.nodes = CachePut(st.nodes, node),
                  !.complex_index =
                      insert(st.complex_index, node.node_id, node.c)]
    IN IF Persistent THEN _persist_node(st1, node, fault) ELSE st1

\* store_node
store_node(st, node, fault) ==
    LET st1 == [st EXCEPT
                  !.nodes = CachePut(st.nodes, node),
                  !.trinity_index =
                      insert(st.trinity_index, node.node_id, node.trinity_vector),
                  !.complex_index =
                      insert(st.complex_index, node.node_id, node.c)]
    IN IF Persistent THEN _persist_node(st1, node, fault) ELSE st1

\* get_node: the node returned, and the store with the node cached.
get_node(st, node_id) ==
    IF InCache(st.nodes, node_id)
    THEN [st |-> st, node |-> CacheGet(st.nodes, node_id)]
    ELSE LET loaded == IF Persistent THEN _load_node_from_db(st, node_id) ELSE None
         IN IF loaded # None
            THEN [st |-> [st EXCEPT !.nodes = Append(st.nodes, loaded)],
                  node |-> loaded]
            ELSE [st |-> st, node |-> None]

\* ----------------------------------------------------------- the operations
\* The first i with relationships[i] = (relation_type, target_id, _), or 0.
FindRelationship(relationships, relation_type, target_id) ==
    LET hits == { i \in DOMAIN relationships :
                    /\ relationships[i][1] = relation_type
                    /\ relationships[i][2] = target_id }
    IN IF hits = {} THEN 0 ELSE CHOOSE i \in hits : \A j \in hits : i <= j

\* add_relation, the cache half: the source node's relationship of this type
\* and target is replaced, or one is added.
UpsertRelationship(node, relation_type, target_id, strength, metadata) ==
    LET entry == DictSet(metadata, "strength", strength)
        i == FindRelationship(node.relationships, relation_type, target_id)
    IN IF i # 0
       THEN [node EXCEPT !.relationships[i] = <<relation_type, target_id, entry>>]
       ELSE [node EXCEPT !.relationships =
               add_relationship(node.relationships, relation_type, target_id, entry)]

\* The id of a relations row: f"{source_id}_{relation_type}_{target_id}_{uuid4().hex[:4]}".
\* Node ids and the suffix have fixed lengths, so the string determines the tuple.
RelationId(source_id, relation_type, target_id, suffix) ==
    <<source_id, relation_type, target_id, suffix>>

\* INSERT OR REPLACE INTO relations: a row of the same id is replaced.
InsertRelation(rows, row) ==
    Append(SelectSeq(rows, LAMBDA r : r.id # row.id), row)

\* add_relation from line 534 on, both endpoints found: the store after the
\* call, what it returns, and whether the insert raised (an injected fault, or
\* a foreign key without its nodes row).
add_relation_found(st, source_id, target_id, relation_type, strength, metadata, suffix, fault) ==
    LET source_node == CacheGet(st.nodes, source_id)
        st1 == [st EXCEPT !.nodes =
                   CachePut(st.nodes,
                            UpsertRelationship(source_node, relation_type,
                                               target_id, strength, metadata))]
        row == [id |-> RelationId(source_id, relation_type, target_id, suffix),
                source_id |-> source_id, target_id |-> target_id,
                relation_type |-> relation_type, weight |-> strength,
                metadata |-> metadata]
        raised == \/ fault
                  \/ ~HasRow(st1.db_nodes, source_id)
                  \/ ~HasRow(st1.db_nodes, target_id)
    IN IF Persistent
       THEN IF raised
            THEN [st |-> st1, ret |-> FALSE, failed |-> TRUE]
            ELSE [st |-> [st1 EXCEPT !.db_relations =
                             InsertRelation(st1.db_relations, row)],
                  ret |-> TRUE, failed |-> FALSE]
       ELSE [st |-> st1, ret |-> TRUE, failed |-> FALSE]

\* add_relation with the check of the target node forgotten.
add_relation_unchecked(st, source_id, target_id, relation_type, strength, metadata, suffix, fault) ==
    LET g1 == get_node(st, source_id)
    IN IF g1.node = None
       THEN [st |-> g1.st, ret |-> FALSE, failed |-> FALSE]
       ELSE add_relation_found(g1.st, source_id, target_id, relation_type,
                               strength, metadata, suffix, fault)

\* add_relation: False when get_node finds no source or no target.
add_relation(st, source_id, target_id, relation_type, strength, metadata, suffix, fault) ==
    LET g1 == get_node(st, source_id)
        g2 == get_node(g1.st, target_id)
    IN IF g1.node = None
       THEN [st |-> g1.st, ret |-> FALSE, failed |-> FALSE]
       ELSE IF g2.node = None
       THEN [st |-> g2.st, ret |-> FALSE, failed |-> FALSE]
       ELSE add_relation_found(g2.st, source_id, target_id, relation_type,
                               strength, metadata, suffix, fault)

\* The metadata create_node gives the derived_from relation: {"creation_time": time.time()}.
CreationMeta == [creation_time |-> 0]

\* create_node: the node is built and stored; with a parent_id that resolves,
\* the relation (node, "derived_from", parent) is added.
create_node(st, node_id, input, parent_id, suffix, fault_node, fault_relation) ==
    LET node == [node_id |-> node_id, label |-> input.label,
                 trinity_vector |-> input.trinity, c |-> input.c,
                 relationships |-> <<>>]
        st1 == store_node(st, node, fault_node)
        g == get_node(st1, parent_id)
    IN IF parent_id # NoId /\ g.node # None
       THEN LET r == add_relation(g.st, node_id, parent_id, "derived_from", 10,
                                 CreationMeta, suffix, fault_relation)
            IN [st |-> r.st, linked |-> r.ret, failed |-> r.failed]
       ELSE [st |-> IF parent_id # NoId THEN g.st ELSE st1,
             linked |-> FALSE, failed |-> FALSE]

\* OntologicalRelation
Relation(source_id, target_id, relation_type, strength, metadata) ==
    [source_id |-> source_id, target_id |-> target_id,
     relation_type |-> relation_type, strength |-> strength, metadata |-> metadata]

RelationKey(r) == <<r.source_id, r.target_id, r.relation_type>>

RECURSIVE CachedRelations(_, _, _)
\* get_relations, the cache half: the node's relationships of the type asked for.
CachedRelations(node_id, relationships, relation_type) ==
    IF relationships = <<>> THEN <<>>
    ELSE LET e == Head(relationships)
             rest == CachedRelations(node_id, Tail(relationships), relation_type)
         IN IF relation_type = AnyType \/ e[1] = relation_type
            THEN <<Relation(node_id, e[2], e[1], DictGet(e[3], "strength", 10), e[3])>>
                     \o rest
            ELSE rest

RECURSIVE MergeRows(_, _)
\* get_relations, the database half: the rows not seen yet are appended.
MergeRows(relations, rows) ==
    IF rows = <<>> THEN relations
    ELSE LET r == Head(rows)
             seen_relations == { RelationKey(relations[i]) : i \in DOMAIN relations }
         IN IF <<r.source_id, r.target_id, r.relation_type>> \notin seen_relations
            THEN MergeRows(Append(relations,
                                  Relation(r.source_id, r.target_id, r.relation_type,
                                           r.weight, r.metadata)),
                           Tail(rows))
            ELSE MergeRows(relations, Tail(rows))

\* get_relations: the store after the call (get_node may cache the node) and
\* the relations returned.
get_relations(st, node_id, relation_type, direction) ==
    LET g == get_node(st, node_id)
        cached == IF g.node # None /\ direction \in {"outgoing", "both"}
                  THEN CachedRelations(node_id, g.node.relationships, relation_type)
                  ELSE <<>>
        rows == SelectSeq(g.st.db_relations,
                    LAMBDA r :
                      /\ \/ direction \in {"outgoing", "both"} /\ r.source_id = node_id
                         \/ direction \in {"incoming", "both"} /\ r.target_id = node_id
                      /\ relation_type = AnyType \/ r.relation_type = relation_type)
    IN [st |-> g.st,
        relations |-> IF Persistent THEN MergeRows(cached, rows) ELSE cached]

\* str.lower(), character by character.
Lower(ch) ==
    IF ch = "A" THEN "a" ELSE IF ch = "B" THEN "b"
    ELSE IF ch = "D" THEN "d" ELSE IF ch = "P" THEN "p" ELSE ch

LowerAll(text) == [i \in DOMAIN text |-> Lower(text[i])]

\* needle in haystack, for Python strings.
Contains(haystack, needle) ==
    \E start \in 0..(Len(haystack) - Len(needle)) :
        \A i \in 1..Len(needle) : haystack[start + i] = needle[i]

RECURSIVE CachedResults(_, _, _, _)
\* find_by_query, the loop over self.nodes.items(): the ids collected, and
\* whether the loop returned them itself.
CachedResults(cache, cached_results, query_term, limit) ==
    IF cache = <<>> THEN [results |-> cached_results, returned |-> FALSE]
    ELSE LET node == Head(cache)
             now == Append(cached_results, node.node_id)
         IN IF Contains(LowerAll(node.label), LowerAll(query_term))
            THEN IF Len(now) >= limit
                 THEN [results |-> now, returned |-> TRUE]
                 ELSE CachedResults(Tail(cache), now, query_term, limit)
            ELSE CachedResults(Tail(cache), cached_results, query_term, limit)

RECURSIVE Like(_, _)
\* text LIKE pattern in SQLite: % matches any run of characters, _ any one
\* character, and ASCII letters match whatever their case.
Like(text, pattern) ==
    IF pattern = <<>> THEN text = <<>>
    ELSE IF Head(pattern) = "%"
    THEN Like(text, Tail(pattern)) \/ (text # <<>> /\ Like(Tail(text), pattern))
    ELSE /\ text # <<>>
         /\ Head(pattern) = "_" \/ Lower(Head(text)) = Lower(Head(pattern))
         /\ Like(Tail(text), Tail(pattern))

\* The first n entries of s.
Take(s, n) == SubSeq(s, 1, IF n < Len(s) THEN n ELSE Len(s))

\* find_by_query: the cache, then query_text LIKE '%query_term%' LIMIT the rest.
find_by_query(st, query_term, limit) ==
    LET c == CachedResults(st.nodes, <<>>, query_term, limit)
        cached_results == c.results
        remaining_limit == limit - Len(cached_results)
        rows == Take(SelectSeq(st.db_nodes,
                        LAMBDA r : Like(r.label, <<"%">> \o query_term \o <<"%">>)),
                     remaining_limit)
        ids == [i \in DOMAIN rows |-> rows[i].id]
        db_results == SelectSeq(ids, LAMBDA id : id \notin SeqToSet(cached_results))
    IN IF c.returned THEN cached_results
       ELSE IF Persistent /\ remaining_limit > 0
       THEN cached_results \o db_results
       ELSE cached_results

\* _load_indices_from_db: one insertion per row of the nodes table, in scan order.
TrinityOfRow(row) == row.trinity

ComplexOfRow(row) == row.c

\* _load_indices_from_db with the complex index left empty.
_load_indices_trinity_only(rows) ==
    [ trinity_index |-> [i \in DOMAIN rows |-> <<rows[i].id, TrinityOfRow(rows[i])>>],
      complex_index |-> <<>> ]

_load_indices_from_db(rows) ==
    [ trinity_index |-> [i \in DOMAIN rows |-> <<rows[i].id, TrinityOfRow(rows[i])>>],
      complex_index |-> [i \in DOMAIN rows |-> <<rows[i].id, ComplexOfRow(rows[i])>>] ]

\* TrinityVector(e, g, t): each component clamped to [0, 1], in tenths.
TrinityVector(e, g, t) ==
    LET clamp(x) == IF x < 0 THEN 0 ELSE IF x > 10 THEN 10 ELSE x
    IN <<clamp(e), clamp(g), clamp(t)>>

\* str(i + 1) for the piece numbers.
Digit(i) == <<"1", "2", "3", "4", "5", "6", "7", "8", "9">>[i]

\* f"{relation_type.capitalize()} Piece {i+1} of '{source_label}'" with
\* relation_type = "decomposition"; i counts from 1 here.
PieceLabel(i, source_label) ==
    <<"D", "e", "c", "o", "m", "p", "o", "s", "i", "t", "i", "o", "n", " ",
      "P", "i", "e", "c", "e", " ", Digit(i), " ", "o", "f", " ", "'">>
        \o source_label \o <<"'">>

RECURSIVE BanachTarskiPieces(_, _, _, _, _, _, _, _)
\* apply_banach_tarski, the loop from piece i on: the piece is created with
\* the source as its parent, and the relation source -> piece is added.  The
\* database write number fault_at of the call raises (0: none); there are three
\* writes for a piece: its row, its derived_from row, the decomposition row.
BanachTarskiPieces(r, node_id, source_node, i, pieces, first_id, draws, fault_at) ==
    IF i > pieces THEN r
    ELSE LET d == draws[i]
             piece_id == first_id + i - 1
             input == [label |-> PieceLabel(i, source_node.label),
                       trinity |-> TrinityVector(source_node.trinity_vector[1] + d[1],
                                                 source_node.trinity_vector[2] + d[2],
                                                 source_node.trinity_vector[3] + d[3]),
                       c |-> <<source_node.c[1] + d[4], source_node.c[2] + d[5]>>]
             w == 3 * (i - 1)
             r1 == create_node(r.st, piece_id, input, node_id, 1,
                               fault_at = w + 1, fault_at = w + 2)
             r2 == add_relation(r1.st, node_id, piece_id, "decomposition",
                                10 \div pieces, [piece_index |-> i], 1,
                                fault_at = w + 3)
         IN BanachTarskiPieces(
                [st |-> r2.st, new_node_ids |-> Append(r.new_node_ids, piece_id),
                 failed |-> r.failed \/ fault_at = w + 1 \/ r1.failed \/ r2.failed],
                node_id, source_node, i + 1, pieces, first_id, draws, fault_at)

\* apply_banach_tarski with the loop one piece short: range(1, pieces).
apply_banach_tarski_short(st, node_id, pieces, first_id, draws, fault_at) ==
    LET g == get_node(st, node_id)
    IN IF g.node = None
       THEN [st |-> g.st, new_node_ids |-> <<>>, failed |-> FALSE]
       ELSE BanachTarskiPieces(
                [st |-> g.st, new_node_ids |-> <<>>, failed |-> FALSE],
                node_id, g.node, 1, pieces - 1, first_id, draws, fault_at)

\* apply_banach_tarski(node_id, pieces): [] when the node is not found.
apply_banach_tarski(st, node_id, pieces, first_id, draws, fault_at) ==
    LET g == get_node(st, node_id)
    IN IF g.node = None
       THEN [st |-> g.st, new_node_ids |-> <<>>, failed |-> FALSE]
       ELSE BanachTarskiPieces(
                [st |-> g.st, new_node_ids |-> <<>>, failed |-> FALSE],
                node_id, g.node, 1, pieces, first_id, draws, fault_at)

\* -------------------------------------------------------------- k-d tree
\* The empty subtree (None) and a KDNode.
KDNone == [empty |-> TRUE]

KDNode(node_id, point) ==
    [empty |-> FALSE, node_id |-> node_id, point |-> point,
     left |-> KDNone, right |-> KDNone]

RECURSIVE _insert(_, _, _, _, _)
\* KDTree._insert in a tree of k dimensions: left when the point is smaller on
\* the axis of the depth, right otherwise.
_insert(k, node, node_id, point, depth) ==
    IF node.empty THEN KDNode(node_id, point)
    ELSE LET axis == (depth % k) + 1
         IN IF point[axis] < node.point[axis]
            THEN [node EXCEPT !.left = _insert(k, node.left, node_id, point, depth + 1)]
            ELSE [node EXCEPT !.right = _insert(k, node.right, node_id, point, depth + 1)]

RECURSIVE KDTree(_, _)
\* The root of the KDTree(k) that these insertions built, in their order.
KDTree(k, index) ==
    IF index = <<>> THEN KDNone
    ELSE LET e == index[Len(index)]
         IN _insert(k, KDTree(k, SubSeq(index, 1, Len(index) - 1)), e[1], e[2], 0)

RECURSIVE dist_sq(_, _)
\* sum((a - b) ** 2 for a, b in zip(p, q))
dist_sq(p, q) ==
    IF p = <<>> \/ q = <<>> THEN 0
    ELSE (Head(p) - Head(q)) * (Head(p) - Head(q)) + dist_sq(Tail(p), Tail(q))

\* math.sqrt of a squared distance, to two more digits than the coordinates.
sqrt(x) == CHOOSE r \in 0..(10 * x) : r * r <= 100 * x /\ 100 * x < (r + 1) * (r + 1)

\* (-dist_sq, node_id) < (-dist_sq, node_id): Python's tuple comparison.
TupleLess(x, y) == x[1] < y[1] \/ (x[1] = y[1] /\ x[2] < y[2])

RECURSIVE _siftdown(_, _, _, _)
\* heapq._siftdown, positions counted from 1: newitem moves up from pos while
\* it is smaller than its parent.
_siftdown(heap, startpos, pos, newitem) ==
    IF pos > startpos /\ TupleLess(newitem, heap[pos \div 2])
    THEN _siftdown([heap EXCEPT ![pos] = heap[pos \div 2]], startpos, pos \div 2, newitem)
    ELSE [heap EXCEPT ![pos] = newitem]

RECURSIVE _siftup(_, _, _)
\* heapq._siftup: the smaller child moves up until a leaf is reached, where
\* newitem is put and sifted down.
_siftup(heap, pos, newitem) ==
    LET childpos == 2 * pos
        rightpos == childpos + 1
    IN IF childpos <= Len(heap)
       THEN LET c == IF rightpos <= Len(heap) /\ ~TupleLess(heap[childpos], heap[rightpos])
                     THEN rightpos ELSE childpos
            IN _siftup([heap EXCEPT ![pos] = heap[c]], c, newitem)
       ELSE _siftdown([heap EXCEPT ![pos] = newitem], 1, pos, newitem)

\* heapq.heappush(heap, item)
heappush(heap, item) == _siftdown(Append(heap, item), 1, Len(heap) + 1, item)

\* heapq.heapreplace(heap, item)
heapreplace(heap, item) == _siftup(heap, 1, item)

\* A pruning test that searches the other subtree only while the heap holds
\* fewer than k.
SearchesSecondWhileShort(nearest, k, diff) == Len(nearest) < k

\* len(nearest) < k or diff ** 2 < -nearest[0][0]: the other subtree could
\* hold a point closer than the furthest of the heap.
SearchesSecond(nearest, k, diff) ==
    Len(nearest) < k \/ diff * diff < -nearest[1][1]

RECURSIVE _k_nearest_neighbors(_, _, _, _, _, _)
\* KDTree._k_nearest_neighbors: the heap nearest after the subtree of node was
\* searched for the k nearest to point.
_k_nearest_neighbors(dims, node, point, depth, nearest, k) ==
    IF node.empty THEN nearest
    ELSE LET d == dist_sq(node.point, point)
             item == <<-d, node.node_id>>
             n1 == IF Len(nearest) < k THEN heappush(nearest, item)
                   ELSE IF -d > nearest[1][1] THEN heapreplace(nearest, item)
                   ELSE nearest
             axis == (depth % dims) + 1
             diff == point[axis] - node.point[axis]
             first == IF diff < 0 THEN node.left ELSE node.right
             second == IF diff < 0 THEN node.right ELSE node.left
             n2 == _k_nearest_neighbors(dims, first, point, depth + 1, n1, k)
         IN IF SearchesSecond(n2, k, diff)
            THEN _k_nearest_neighbors(dims, second, point, depth + 1, n2, k)
            ELSE n2

RECURSIVE SortByDistance(_)
\* result.sort(key=lambda x: x[1]): a stable sort, equal distances keep their order.
SortByDistance(result) ==
    IF result = <<>> THEN <<>>
    ELSE LET sorted == SortByDistance(SubSeq(result, 1, Len(result) - 1))
             x == result[Len(result)]
             before == SelectSeq(sorted, LAMBDA y : y[2] <= x[2])
             after == SelectSeq(sorted, LAMBDA y : y[2] > x[2])
         IN before \o <<x>> \o after

\* KDTree.k_nearest_neighbors, k >= 1: the (node_id, distance) of the heap in
\* the heap's order, sorted by distance.
k_nearest_neighbors(dims, root, point, k) ==
    IF root.empty THEN <<>>
    ELSE LET nearest == _k_nearest_neighbors(dims, root, point, 0, <<>>, k)
         IN SortByDistance([i \in DOMAIN nearest |->
                              <<nearest[i][2], sqrt(-nearest[i][1])>>])

\* max(1, k)
Max(a, b) == IF a >= b THEN a ELSE b

\* find_nearest_by_trinity on the 3-dimensional index.
find_nearest_by_trinity(st, vector, k) ==
    k_nearest_neighbors(3, KDTree(3, st.trinity_index), vector, Max(1, k))

\* find_nearest_by_position on the 2-dimensional index.
find_nearest_by_position(st, position, k) ==
    k_nearest_neighbors(2, KDTree(2, st.complex_index), position, Max(1, k))

\* ------------------------------------------------------------- the history
Call(op, ret, failed, missing) ==
    [op |-> op, ret |-> ret, failed |-> failed, missing |-> missing]

Triple(source_id, target_id, relation_type) ==
    <<source_id, target_id, relation_type>>

\* The latest row the database accepted for a node id.
WrittenNode(w, row) ==
    [w EXCEPT !.nodes = { n \in w.nodes : n.id # row.id } \cup {row}]

\* The latest relation the database accepted for a triple.
WrittenRelation(w, rel) ==
    [w EXCEPT !.relations =
        { r \in w.relations : RelationKey(r) # RelationKey(rel) } \cup {rel}]

\* A node of this id exists: it is cached, or the open database has its row.
NodeExists(node_id) ==
    InCache(nodes, node_id) \/ (Persistent /\ HasRow(db_nodes, node_id))

\* uuid4().hex[:4] for a new relations row.  The values are interchangeable, so
\* a draw is one of those the triple's rows already carry (the row is replaced)
\* or the least one they do not.
Suffixes(source_id, relation_type, target_id) ==
    LET used == { db_relations[i].id[4] : i \in
                    { j \in DOMAIN db_relations :
                        /\ db_relations[j].source_id = source_id
                        /\ db_relations[j].relation_type = relation_type
                        /\ db_relations[j].target_id = target_id } }
        free == (1..UuidSuffixes) \ used
    IN used \cup (IF free = {} THEN {}
                  ELSE {CHOOSE s \in free : \A t \in free : s <= t})

Count(flag) == IF flag THEN 1 ELSE 0

\* ------------------------------------------------------------------ actions
\* FractalKnowledgeStore(config) on a fresh database file.  Persistence is
\* off when the configuration says so, or os.makedirs or sqlite3.connect failed.
Init ==
    /\ persistence_enabled \in BOOLEAN
    /\ conn = persistence_enabled
    /\ nodes = <<>>
    /\ trinity_index = <<>>
    /\ complex_index = <<>>
    /\ db_nodes = <<>>
    /\ db_relations = <<>>
    /\ next_id = 1
    /\ ops = 0
    /\ faults = 0
    /\ session = 1
    /\ closed = FALSE
    /\ added = [nodes |-> {}, relations |-> {}]
    /\ written = [nodes |-> {}, relations |-> {}]
    /\ last = Call("init", TRUE, FALSE, FALSE)
    /\ OthersIdle

Install(st) ==
    /\ nodes' = st.nodes
    /\ trinity_index' = st.trinity_index
    /\ complex_index' = st.complex_index
    /\ db_nodes' = st.db_nodes
    /\ db_relations' = st.db_relations

\* create_node(label, trinity, position, parent_id): the id is a fresh uuid,
\* so no caller can name it as the parent.
CreateNodeCall(input, parent_id, suffix, fault_node, fault_relation) ==
    LET node_id == next_id
        r == create_node(StoreState, node_id, input, parent_id, suffix,
                         fault_node, fault_relation)
        resolves == parent_id # NoId /\ NodeExists(parent_id)
        w1 == IF Persistent /\ ~fault_node
              THEN WrittenNode(written,
                      [id |-> node_id, label |-> input.label,
                       trinity |-> input.trinity, c |-> input.c])
              ELSE written
        rel == Relation(node_id, parent_id, "derived_from", 10, CreationMeta)
    IN /\ ops < MaxOps
       /\ next_id <= MaxNodes
       /\ parent_id # node_id
       /\ fault_node => Persistent
       /\ fault_relation => Persistent /\ resolves
       /\ faults + Count(fault_node) + Count(fault_relation) <= MaxFaults
       /\ Install(r.st)
       /\ next_id' = next_id + 1
       /\ ops' = ops + 1
       /\ faults' = faults + Count(fault_node) + Count(fault_relation)
       /\ added' = [nodes |-> added.nodes \cup {node_id},
                    relations |->
                        IF r.linked
                        THEN added.relations
                               \cup {Triple(node_id, parent_id, "derived_from")}
                        ELSE added.relations]
       /\ written' = IF r.linked /\ Persistent THEN WrittenRelation(w1, rel) ELSE w1
       /\ last' = Call("create_node", TRUE, fault_node \/ r.failed, FALSE)
       /\ UNCHANGED << other_vars, persistence_enabled, conn, session, closed >>

DoCreateNode ==
    \E input \in NodeInputs, parent_id \in {NoId} \cup NodeIds,
       fault_node \in BOOLEAN, fault_relation \in BOOLEAN :
      \E suffix \in Suffixes(next_id, "derived_from", parent_id) :
        CreateNodeCall(input, parent_id, suffix, fault_node, fault_relation)

\* store_node(node) on the node object the cache holds, its label and
\* coordinates set by the caller.
StoreNodeCall(node_id, input, fault) ==
    /\ InCache(nodes, node_id)
    /\ LET node == [CacheGet(nodes, node_id) EXCEPT
                      !.label = input.label, !.trinity_vector = input.trinity,
                      !.c = input.c]
       IN /\ ops < MaxOps
          /\ fault => Persistent
          /\ faults + Count(fault) <= MaxFaults
          /\ Install(store_node(StoreState, node, fault))
          /\ written' = IF Persistent /\ ~fault
                        THEN WrittenNode(written, NodeToDict(node))
                        ELSE written
          /\ ops' = ops + 1
          /\ faults' = faults + Count(fault)
          /\ last' = Call("store_node", TRUE, fault, FALSE)
          /\ UNCHANGED << other_vars, persistence_enabled, conn, next_id, session, closed, added >>

DoStoreNode ==
    \E node_id \in NodeIds, input \in NodeInputs, fault \in BOOLEAN :
      StoreNodeCall(node_id, input, fault)

\* get_node(node_id): a read, which may cache the node.
GetNodeCall(node_id) ==
    /\ Install(get_node(StoreState, node_id).st)
    /\ UNCHANGED << other_vars, persistence_enabled, conn, next_id, ops, faults, session,
                    closed, added, written, last >>

DoGetNode == \E node_id \in NodeIds : GetNodeCall(node_id)

\* add_relation(source_id, target_id, relation_type, strength, metadata)
AddRelationCall(source_id, target_id, input, suffix, fault) ==
    LET r == add_relation(StoreState, source_id, target_id, input.relation_type,
                          input.strength, input.metadata, suffix, fault)
        missing == ~NodeExists(source_id) \/ ~NodeExists(target_id)
        rel == Relation(source_id, target_id, input.relation_type,
                        input.strength, input.metadata)
    IN /\ ops < MaxOps
       /\ fault => Persistent /\ ~missing
       /\ faults + Count(fault) <= MaxFaults
       /\ Install(r.st)
       /\ ops' = ops + 1
       /\ faults' = faults + Count(fault)
       /\ added' = IF r.ret
                   THEN [added EXCEPT !.relations =
                           @ \cup {Triple(source_id, target_id, input.relation_type)}]
                   ELSE added
       /\ written' = IF r.ret /\ Persistent
                     THEN WrittenRelation(written, rel)
                     ELSE written
       /\ last' = Call("add_relation", r.ret, r.failed, missing)
       /\ UNCHANGED << other_vars, persistence_enabled, conn, next_id, session, closed >>

DoAddRelation ==
    \E source_id \in NodeIds, target_id \in NodeIds, input \in RelationInputs,
       fault \in BOOLEAN :
      \E suffix \in Suffixes(source_id, input.relation_type, target_id) :
        AddRelationCall(source_id, target_id, input, suffix, fault)

\* get_relations(node_id, relation_type, direction): a read, which may cache the node.
GetRelationsCall(node_id, relation_type, direction) ==
    /\ Install(get_relations(StoreState, node_id, relation_type, direction).st)
    /\ UNCHANGED << other_vars, persistence_enabled, conn, next_id, ops, faults, session,
                    closed, added, written, last >>

DoGetRelations ==
    \E node_id \in NodeIds, relation_type \in RelationTypes \cup {AnyType},
       direction \in Directions :
      GetRelationsCall(node_id, relation_type, direction)

\* close with the connection and the persistence flag left as they were.
DoCloseKeepsConnection ==
    /\ ~closed
    /\ closed' = TRUE
    /\ last' = Call("close", TRUE, FALSE, FALSE)
    /\ UNCHANGED << other_vars, persistence_enabled, conn, nodes, trinity_index, complex_index,
                    db_nodes, db_relations, next_id, ops, faults, session, added,
                    written >>

\* close
DoClose ==
    /\ ~closed
    /\ conn' = FALSE
    /\ persistence_enabled' = FALSE
    /\ closed' = TRUE
    /\ last' = Call("close", TRUE, FALSE, FALSE)
    /\ UNCHANGED << other_vars, nodes, trinity_index, complex_index, db_nodes, db_relations,
                    next_id, ops, faults, session, added, written >>

\* FractalKnowledgeStore(config) again, on the database file as it is: __init__,
\* _initialize_database and _load_indices_from_db.
DoReopen ==
    \E enabled \in BOOLEAN :
      /\ session < MaxSessions
      /\ session' = session + 1
      /\ persistence_enabled' = enabled
      /\ conn' = enabled
      /\ nodes' = <<>>
      /\ trinity_index' = IF enabled THEN _load_indices_from_db(db_nodes).trinity_index ELSE <<>>
      /\ complex_index' = IF enabled THEN _load_indices_from_db(db_nodes).complex_index ELSE <<>>
      /\ closed' = FALSE
      /\ added' = [nodes |-> {}, relations |-> {}]
      /\ last' = Call("init", TRUE, FALSE, FALSE)
      /\ UNCHANGED << other_vars, db_nodes, db_relations, next_id, ops, faults, written >>

Next ==
    \/ DoCreateNode
    \/ DoStoreNode
    \/ DoGetNode
    \/ DoAddRelation
    \/ DoGetRelations
    \/ DoClose
    \/ DoReopen

Spec == Init /\ [][Next]_vars

\* ------------------------------------------------- the store, decomposing
\* The largest pieces argument of apply_banach_tarski.
MaxPieces == 2
\* Number of node ids uuid4 hands out to pieces in a run.
MaxPieceIds == 3
\* Number of apply_banach_tarski calls in a run.
MaxDecompositions == 2

\* The five random.uniform(-perturbation_scale, perturbation_scale) draws of a
\* piece, for the three trinity components (tenths) and the two coordinates
\* of the position (hundredths); the first is what perturbation_scale = 0 gives.
Perturbations == { <<0, 0, 0, 0, 0>>, <<3, 1, -1, 0, 1>> }

\* A store in which create_node has stored one node, with no parent.
DecomposeInit ==
    \E enabled \in BOOLEAN, input \in NodeInputs :
      /\ persistence_enabled = enabled
      /\ conn = enabled
      /\ LET node == [node_id |-> 1, label |-> input.label,
                      trinity_vector |-> input.trinity, c |-> input.c,
                      relationships |-> <<>>]
         IN /\ nodes = <<node>>
            /\ trinity_index = <<<<1, input.trinity>>>>
            /\ complex_index = <<<<1, input.c>>>>
            /\ db_nodes = IF enabled THEN <<NodeToDict(node)>> ELSE <<>>
            /\ written = [nodes |-> IF enabled THEN {NodeToDict(node)} ELSE {},
                          relations |-> {}]
      /\ db_relations = <<>>
      /\ next_id = 2
      /\ ops = 1
      /\ faults = 0
      /\ session = 1
      /\ closed = FALSE
      /\ added = [nodes |-> {1}, relations |-> {}]
      /\ last = Call("create_node", TRUE, FALSE, FALSE)
      /\ OthersIdle

\* The relations relations_of returns for the outgoing direction, over the
\* ids handed out so far: how many there are, and their (source, target, type).
OutgoingCount(ids) ==
    LET n[id \in 0..(1 + MaxPieceIds)] ==
          IF id = 0 THEN 0
          ELSE n[id - 1]
                 + (IF id \in ids
                    THEN Len(get_relations(StoreState, id, AnyType, "outgoing").relations)
                    ELSE 0)
    IN n[1 + MaxPieceIds]

OutgoingKeys(ids) ==
    UNION { LET rels == get_relations(StoreState, id, AnyType, "outgoing").relations
            IN { RelationKey(rels[i]) : i \in DOMAIN rels } : id \in ids }

\* The ids get_node finds a node for.
FoundIds(ids) == { id \in ids : get_node(StoreState, id).node # None }

\* What the reads return about nodes and relations, over the ids a run hands out.
Reads ==
    LET ids == 1..(1 + MaxPieceIds)
    IN [found |-> FoundIds(ids), count |-> OutgoingCount(ids),
        keys |-> OutgoingKeys(ids)]

\* apply_banach_tarski(node_id, pieces, perturbation_scale)
BanachTarskiCall(node_id, pieces, draws, fault_at) ==
    LET r == apply_banach_tarski(StoreState, node_id, pieces, next_id, draws, fault_at)
        created == Len(r.new_node_ids)
    IN /\ ops < 1 + MaxDecompositions
       /\ next_id + pieces - 1 <= 1 + MaxPieceIds
       /\ fault_at # 0 => Persistent /\ faults < MaxFaults /\ NodeExists(node_id)
       /\ Install(r.st)
       /\ next_id' = next_id + created
       /\ ops' = ops + 1
       /\ faults' = faults + Count(fault_at # 0)
       /\ added' = [added EXCEPT !.nodes = @ \cup SeqToSet(r.new_node_ids)]
       /\ last' = [op |-> "apply_banach_tarski", ret |-> r.new_node_ids,
                   failed |-> r.failed, missing |-> ~NodeExists(node_id),
                   node_id |-> node_id, pieces |-> pieces, before |-> Reads]
       /\ UNCHANGED << other_vars, persistence_enabled, conn, session, closed, written >>

DoBanachTarski ==
    \E node_id \in 1..(1 + MaxPieceIds), pieces \in 0..MaxPieces :
      \E draws \in [1..pieces -> Perturbations], fault_at \in 0..(3 * pieces) :
        BanachTarskiCall(node_id, pieces, draws, fault_at)

DecomposeNext ==
    \/ DoBanachTarski
    \/ DoClose
    \/ DoReopen

SpecDecompose == DecomposeInit /\ [][DecomposeNext]_vars

\* ------------------------------------------------------ a KDTree on its own
\* Number of insertions into the tree.
MaxInserts == 3
\* Coordinates are 0..MaxCoord.
MaxCoord == 1
\* The largest k of a query.
MaxK == 3

\* The ids in use and one more: which id is new does not matter to the tree.
KDIds == 1..(Len(kd_index) + 1)
KDPoints == [1..kd_dims -> 0..MaxCoord]

\* The store, not in use.
StoreIdle ==
    /\ persistence_enabled = FALSE
    /\ conn = FALSE
    /\ nodes = <<>>
    /\ trinity_index = <<>>
    /\ complex_index = <<>>
    /\ db_nodes = <<>>
    /\ db_relations = <<>>
    /\ next_id = 1
    /\ ops = 0
    /\ faults = 0
    /\ session = 1
    /\ closed = FALSE
    /\ added = [nodes |-> {}, relations |-> {}]
    /\ written = [nodes |-> {}, relations |-> {}]
    /\ last = Call("init", TRUE, FALSE, FALSE)

\* KDTree(k=2) and KDTree(k=3), empty.
KDInit ==
    /\ StoreIdle
    /\ LamIdle
    /\ MoreIdle
    /\ kd_dims \in {2, 3}
    /\ kd_index = <<>>
    /\ kd_last = NoQuery

\* KDTree.insert(node_id, point)
KDInsert ==
    \E node_id \in KDIds, point \in KDPoints :
      /\ Len(kd_index) < MaxInserts
      /\ kd_index' = insert(kd_index, node_id, point)
      /\ kd_last' = NoQuery
      /\ UNCHANGED << vars, lam_vars, more_vars, kd_dims >>

\* KDTree.k_nearest_neighbors(point, k).  A query leaves the tree as it is, so
\* one query is looked at between two insertions.
KDQuery ==
    \E point \in KDPoints, k \in 1..MaxK :
      /\ kd_last = NoQuery
      /\ kd_last' = [point |-> point, k |-> k,
                     found |-> k_nearest_neighbors(kd_dims, KDTree(kd_dims, kd_index),
                                                   point, k)]
      /\ UNCHANGED << vars, lam_vars, more_vars, kd_dims, kd_index >>

KDNext == KDInsert \/ KDQuery

SpecKD == KDInit /\ [][KDNext]_<< vars, other_vars >>

\* ------------------------------------------------------ the lambda engine
\* src/logos_system/subsystems/TETRAGNOS/lambda_engine/lambda_engine.py.
\* An expression is the record its to_dict gives, its type field the class.
Variable(name, onto_type) == [type |-> "var", name |-> name, onto_type |-> onto_type]

Value(value, onto_type) == [type |-> "value", value |-> value, onto_type |-> onto_type]

Abstraction(var_name, var_type, body) ==
    [type |-> "lambda", var_name |-> var_name, var_type |-> var_type, body |-> body]

Application(func, arg) == [type |-> "app", func |-> func, arg |-> arg]

SufficientReason(source_type, target_type, value) ==
    [type |-> "sr", source_type |-> source_type, target_type |-> target_type,
     value |-> value]

\* Evaluator._initialize_environment: self.env
env ==
    [ei |-> Value("ei", "EXISTENCE"), og |-> Value("og", "GOODNESS"),
     at |-> Value("at", "TRUTH")]

RECURSIVE substitute(_, _, _)
\* Evaluator.substitute(expr, var_name, value)
substitute(expr, var_name, value) ==
    IF expr.type = "var"
    THEN IF expr.name = var_name THEN value ELSE expr
    ELSE IF expr.type = "value" \/ expr.type = "sr" THEN expr
    ELSE IF expr.type = "lambda"
    THEN IF expr.var_name = var_name THEN expr
         ELSE Abstraction(expr.var_name, expr.var_type,
                          substitute(expr.body, var_name, value))
    ELSE IF expr.type = "app"
    THEN Application(substitute(expr.func, var_name, value),
                     substitute(expr.arg, var_name, value))
    ELSE expr

RECURSIVE _evaluate(_, _, _)
\* Evaluator._evaluate(expr, depth, max_depth): the expression returned, and
\* whether the depth limit was reached (the warning logged) on the way.
_evaluate(expr, depth, max_depth) ==
    IF depth >= max_depth THEN [expr |-> expr, limit_reached |-> TRUE]
    ELSE IF expr.type = "var"
    THEN [expr |-> IF expr.name \in DOMAIN env THEN env[expr.name] ELSE expr,
          limit_reached |-> FALSE]
    ELSE IF expr.type = "value" \/ expr.type = "sr"
    THEN [expr |-> expr, limit_reached |-> FALSE]
    ELSE IF expr.type = "lambda"
    THEN LET new_body == _evaluate(expr.body, depth + 1, max_depth)
         IN [expr |-> Abstraction(expr.var_name, expr.var_type, new_body.expr),
             limit_reached |-> new_body.limit_reached]
    ELSE IF expr.type = "app"
    THEN LET func == _evaluate(expr.func, depth + 1, max_depth)
             arg == _evaluate(expr.arg, depth + 1, max_depth)
         IN IF func.expr.type = "lambda"
            THEN LET substituted == substitute(func.expr.body, func.expr.var_name,
                                               arg.expr)
                     r == _evaluate(substituted, depth + 1, max_depth)
                 IN [expr |-> r.expr,
                     limit_reached |-> func.limit_reached \/ arg.limit_reached
                                         \/ r.limit_reached]
            ELSE [expr |-> Application(func.expr, arg.expr),
                  limit_reached |-> func.limit_reached \/ arg.limit_reached]
    ELSE [expr |-> expr, limit_reached |-> FALSE]

\* Evaluator.evaluate(expr, max_depth): it returns an expression in every
\* case, and raises nothing.
evaluate(expr, max_depth) ==
    LET r == _evaluate(expr, 0, max_depth)
    IN [expr |-> r.expr, limit_reached |-> r.limit_reached, raised |-> "none"]

\* utils/data_structures.py. A type is a record that carries its class: a
\* member of the enum OntologicalType, a FunctionType, or Python's None.
OntologicalType(name) == [class |-> "OntologicalType", name |-> name]

FunctionType(domain, codomain) ==
    [class |-> "FunctionType", domain |-> domain, codomain |-> codomain]

\* What check_type returns on a type error.
TypeNone == [class |-> "NoneType"]

\* TypeChecker._initialize_environment: self.env
type_env ==
    [SR_E_G |-> FunctionType(OntologicalType("EXISTENCE"), OntologicalType("GOODNESS")),
     SR_G_T |-> FunctionType(OntologicalType("GOODNESS"), OntologicalType("TRUTH"))]

\* self.env.get(name, default)
EnvGet(e, name, default) == IF name \in DOMAIN e THEN e[name] ELSE default

\* self.env[name] = value
EnvSet(e, name, value) ==
    [n \in DOMAIN e \cup {name} |-> IF n = name THEN value ELSE e[n]]

\* del self.env[name]
EnvDel(e, name) == [n \in DOMAIN e \ {name} |-> e[n]]

\* A comparison that finds no two types different.
TypeNeNever(a, b) == FALSE

\* a != b of two types: the members of the enum are equal when they are the
\* same member, two FunctionTypes when their domains and their codomains are
\* (FunctionType.__eq__), and nothing else is.
TypeNe(a, b) == a # b

RECURSIVE check_type(_, _)
\* TypeChecker.check_type(expr) with self.env = e: the type returned (TypeNone
\* on a type error) and self.env as the call leaves it.
check_type(expr, e) ==
    IF expr.type = "var"
    THEN [type |-> EnvGet(e, expr.name, OntologicalType(expr.onto_type)), env |-> e]
    ELSE IF expr.type = "value"
    THEN [type |-> OntologicalType(expr.onto_type), env |-> e]
    ELSE IF expr.type = "lambda"
    THEN LET old_binding == EnvGet(e, expr.var_name, TypeNone)
             body == check_type(expr.body,
                                EnvSet(e, expr.var_name, OntologicalType(expr.var_type)))
             restored == IF old_binding # TypeNone
                         THEN EnvSet(body.env, expr.var_name, old_binding)
                         ELSE EnvDel(body.env, expr.var_name)
         IN IF body.type # TypeNone
            THEN [type |-> FunctionType(OntologicalType(expr.var_type), body.type),
                  env |-> restored]
            ELSE [type |-> TypeNone, env |-> restored]
    ELSE IF expr.type = "app"
    THEN LET func == check_type(expr.func, e)
         IN IF func.type.class # "FunctionType"
            THEN [type |-> TypeNone, env |-> func.env]
            ELSE LET arg == check_type(expr.arg, func.env)
                 IN IF TypeNe(func.type.domain, arg.type)
                    THEN [type |-> TypeNone, env |-> arg.env]
                    ELSE [type |-> func.type.codomain, env |-> arg.env]
    ELSE IF expr.type = "sr"
    THEN IF expr.source_type = "EXISTENCE" /\ expr.target_type = "GOODNESS"
            /\ expr.value = 3
         THEN [type |-> FunctionType(OntologicalType(expr.source_type),
                                     OntologicalType(expr.target_type)),
               env |-> e]
         ELSE IF expr.source_type = "GOODNESS" /\ expr.target_type = "TRUTH"
                 /\ expr.value = 2
         THEN [type |-> FunctionType(OntologicalType(expr.source_type),
                                     OntologicalType(expr.target_type)),
               env |-> e]
         ELSE [type |-> TypeNone, env |-> e]
    ELSE [type |-> TypeNone, env |-> e]

\* Nesting depth of the expressions the Evaluator is given.
MaxTermDepth == 2
\* The largest max_depth given to evaluate.
MaxFuel == 5

VarNames == { "x", "y" }

\* The leaves: variables (one of them named as an entry of env), a value and a
\* sufficient-reason operator.
Atoms ==
    { Variable("x", "EXISTENCE"), Variable("y", "EXISTENCE"),
      Variable("ei", "EXISTENCE"), Value("ei", "EXISTENCE"),
      SufficientReason("EXISTENCE", "GOODNESS", 3) }

RECURSIVE Terms(_)
\* The expressions nested d deep at most.
Terms(d) ==
    IF d = 0 THEN Atoms
    ELSE LET t == Terms(d - 1)
         IN t \cup { Abstraction(n, "EXISTENCE", b) : n \in VarNames, b \in t }
              \cup { Application(f, a) : f \in t, a \in t }

\* Expressions whose binders are of another type than their variables'
\* annotations: abstractions over GOODNESS, and their applications to a leaf.
TypedInputs ==
    { Abstraction(n, "GOODNESS", b) : n \in VarNames, b \in Terms(1) }
      \cup { Application(Abstraction(n, "GOODNESS", b), a) :
               n \in VarNames, b \in Atoms, a \in Atoms }

\* The expressions given to the Evaluator: those nested MaxTermDepth deep,
\* each of them applied to itself, and the abstractions over a redex.
LamInputs ==
    LET t == Terms(MaxTermDepth)
    IN t \cup { Application(e, e) : e \in t }
         \cup { Abstraction("x", "EXISTENCE", e) :
                  e \in { a \in t : a.type = "app" /\ a.func.type = "lambda" } }
         \cup TypedInputs

LamInit ==
    /\ StoreIdle
    /\ KDIdle
    /\ MoreIdle
    /\ lam_expr \in LamInputs
    /\ lam_last = NoCall

\* evaluator.substitute(expr, var_name, value)
LamSubstitute ==
    \E var_name \in VarNames, value \in Atoms :
      /\ lam_last = NoCall
      /\ lam_last' = [op |-> "substitute", var_name |-> var_name, value |-> value,
                      expr |-> substitute(lam_expr, var_name, value)]
      /\ UNCHANGED << vars, kd_vars, more_vars, lam_expr >>

\* evaluator.evaluate(expr, max_depth)
LamEvaluate ==
    \E max_depth \in 0..MaxFuel :
      /\ lam_last = NoCall
      /\ LET r == evaluate(lam_expr, max_depth)
         IN lam_last' = [op |-> "evaluate", max_depth |-> max_depth,
                         expr |-> r.expr, limit_reached |-> r.limit_reached,
                         raised |-> r.raised]
      /\ UNCHANGED << vars, kd_vars, more_vars, lam_expr >>

\* type_checker.check_type(expr), of the expression given or of the one
\* substitute has returned.
LamCheckType ==
    /\ lam_last.op \in {"none", "substitute"}
    /\ LET of == IF lam_last.op = "substitute" THEN lam_last.expr ELSE lam_expr
           r == check_type(of, type_env)
       IN lam_last' = [op |-> "check_type", after |-> lam_last, expr |-> of,
                       type |-> r.type, env |-> r.env]
    /\ UNCHANGED << vars, kd_vars, more_vars, lam_expr >>

LamNext == LamSubstitute \/ LamEvaluate \/ LamCheckType

SpecLambda == LamInit /\ [][LamNext]_<< vars, other_vars >>

\* ------------------------------------------------- the value computations
\* The escape-time positioners. A complex number is the pair of its real and
\* its imaginary part, here integers, on which the arithmetic of the code is
\* exact.
\* z*z + c
SquareAdd(z, c) == << z[1] * z[1] - z[2] * z[2] + c[1], 2 * z[1] * z[2] + c[2] >>

\* abs(z) > radius, for a radius that is not negative
AbsGreater(z, radius) == z[1] * z[1] + z[2] * z[2] > radius * radius

\* fractal_core.py TrinityVector.to_complex, of (existence, goodness, truth)
to_complex(trinity) == << trinity[1] * trinity[3], trinity[2] >>

\* fractal_core.py FractalPosition
FractalPosition(c_real, c_imag, iterations, in_set, escape_radius) ==
    [c_real |-> c_real, c_imag |-> c_imag, iterations |-> iterations,
     in_set |-> in_set, escape_radius |-> escape_radius]

RECURSIVE PositionLoop(_, _, _, _, _)
\* The loop of compute_position from its iteration i on.
PositionLoop(c, z, i, max_iter, escape_radius) ==
    IF i >= max_iter
    THEN FractalPosition(c[1], c[2], max_iter, TRUE, escape_radius)
    ELSE LET z2 == SquareAdd(z, c)
         IN IF AbsGreater(z2, escape_radius)
            THEN FractalPosition(c[1], c[2], i, FALSE, escape_radius)
            ELSE PositionLoop(c, z2, i + 1, max_iter, escape_radius)

\* FractalNavigator(max_iter, escape_radius).compute_position(trinity)
compute_position(trinity, max_iter, escape_radius) ==
    PositionLoop(to_complex(trinity), <<0, 0>>, 0, max_iter, escape_radius)

\* The iterations _calc_orbit_props makes for a node of category MATERIAL
\* (100 in the code) and for one of category METAPHYSICAL (500 in the code),
\* shortened to what the orbits of the integer points reach.
MaterialMaxIter == 2
MetaphysicalMaxIter == 3

RECURSIVE OrbitLoop(_, _, _, _)
\* The loop of _calc_orbit_props from its iteration i on: the value of i it
\* ends with.
OrbitLoop(c, z, i, max_iter) ==
    LET z2 == SquareAdd(z, c)
    IN IF AbsGreater(z2, 2) THEN i
       ELSE IF i + 1 < max_iter THEN OrbitLoop(c, z2, i + 1, max_iter)
       ELSE i

\* OntologicalNode._calc_orbit_props(c), self.category set from c
_calc_orbit_props(c) ==
    LET max_iter == IF c[2] = 0 THEN MaterialMaxIter ELSE MetaphysicalMaxIter
        i == OrbitLoop(c, <<0, 0>>, 0, max_iter)
    IN [depth |-> i, in_set |-> (i = max_iter - 1), max_iter |-> max_iter]

\* The modal classifiers and the coherence. A component of a trinity vector
\* is a number of hundredths; a quotient is the pair of its numerator and its
\* denominator, compared by cross-multiplication.
Quotient(num, den) == << num, den >>

QLess(a, b) == a[1] * b[2] < b[1] * a[2]

QEqual(a, b) == a[1] * b[2] = b[1] * a[2]

\* trinity_vector.py TrinityVector.__init__: the components clamped to [0, 1]
ClampUnit(x) == IF x < 0 THEN 0 ELSE IF x > 100 THEN 100 ELSE x

\* Λ_onto_calculus_engine.py LambdaEngine.trinity_to_modal(trinity_vector)
trinity_to_modal(trinity_vector) ==
    LET existence == trinity_vector[1]
        goodness == trinity_vector[2]
        truth == trinity_vector[3]
        \* existence * truth, in ten-thousandths
        ideal_g == existence * truth
        coherence == IF 100 * goodness >= ideal_g THEN Quotient(1, 1)
                     ELSE IF ideal_g > 0 THEN Quotient(100 * goodness, ideal_g)
                     ELSE Quotient(0, 1)
    IN IF truth > 95 /\ existence > 90 /\ QLess(Quotient(9, 10), coherence)
       THEN "necessary"
       ELSE IF truth > 50 /\ existence > 50 THEN "actual"
       ELSE IF truth > 5 /\ existence > 5 THEN "possible"
       ELSE "impossible"

\* trinity_vector.py TrinityVector(e, g, t).calculate_modal_status()
calculate_modal_status(e, g, t) ==
    LET existence == ClampUnit(e)
        goodness == ClampUnit(g)
        truth == ClampUnit(t)
        \* goodness / (existence * truth + 1e-6)
        coh == Quotient(10000 * goodness, 100 * existence * truth + 1)
    IN IF truth > 90 /\ QLess(Quotient(9, 10), coh) THEN << "necessary", coh >>
       ELSE IF truth > 50 THEN << "actual", coh >>
       ELSE IF truth > 10 THEN << "possible", coh >>
       ELSE << "impossible", coh >>

\* thonoc_core_API.py ThonocCoreAPI.get_coherence(tv)
get_coherence(tv) ==
    LET e == tv[1]
        g == tv[2]
        t == tv[3]
        ideal == e * t
    IN IF 100 * g >= ideal THEN Quotient(1, 1)
       ELSE IF ideal > 0 THEN Quotient(100 * g, ideal)
       ELSE Quotient(0, 1)

\* The largest max_iter and escape_radius a FractalNavigator is made with.
MaxIter == 4
MaxRadius == 3
\* The largest part of the integer points taken for c and for the trinity
\* vectors given to compute_position.
MaxPart == 2

\* The trinity vectors given to compute_position: existence and goodness on
\* the integer points, truth 0 or 1.
PositionInputs ==
    { << e, g, t >> : e \in -MaxPart..MaxPart, g \in -MaxPart..MaxPart, t \in 0..1 }

\* The values given to the OntologicalNode constructor.
OrbitInputs == { << re, im >> : re \in -MaxPart..MaxPart, im \in -MaxPart..MaxPart }

\* The components of the trinity vectors classified, in hundredths: the
\* thresholds of the classifiers and values between them.
Levels == { 0, 5, 10, 50, 60, 90, 95, 100 }

ModalInputs == { << e, g, t >> : e \in Levels, g \in Levels, t \in Levels }

FnInit ==
    /\ StoreIdle
    /\ KDIdle
    /\ LamIdle
    /\ GateIdle
    /\ LateIdle
    /\ fn_last = NoCall

FnUnchanged == UNCHANGED << vars, kd_vars, lam_vars, gate_vars, late_vars >>

\* FractalNavigator(max_iter, escape_radius).compute_position(trinity)
ComputePosition ==
    \E trinity \in PositionInputs, max_iter \in 0..MaxIter,
       escape_radius \in 1..MaxRadius :
      /\ fn_last' = [op |-> "compute_position", trinity |-> trinity,
                     max_iter |-> max_iter, escape_radius |-> escape_radius,
                     ret |-> compute_position(trinity, max_iter, escape_radius)]
      /\ FnUnchanged

\* OntologicalNode(c_value): self.orbit_properties
CalcOrbitProps ==
    \E c \in OrbitInputs :
      /\ fn_last' = [op |-> "_calc_orbit_props", c |-> c,
                     ret |-> _calc_orbit_props(c)]
      /\ FnUnchanged

\* engine.trinity_to_modal(trinity_vector)
TrinityToModal ==
    \E tv \in ModalInputs :
      /\ fn_last' = [op |-> "trinity_to_modal", tv |-> tv,
                     ret |-> trinity_to_modal(tv)]
      /\ FnUnchanged

\* TrinityVector(e, g, t).calculate_modal_status()
CalculateModalStatus ==
    \E tv \in ModalInputs :
      /\ fn_last' = [op |-> "calculate_modal_status", tv |-> tv,
                     ret |-> calculate_modal_status(tv[1], tv[2], tv[3])]
      /\ FnUnchanged

\* api.get_coherence(tv)
GetCoherence ==
    \E tv \in ModalInputs :
      /\ fn_last' = [op |-> "get_coherence", tv |-> tv, ret |-> get_coherence(tv)]
      /\ FnUnchanged

FnNext ==
    \/ ComputePosition
    \/ CalcOrbitProps
    \/ TrinityToModal
    \/ CalculateModalStatus
    \/ GetCoherence

SpecValues == FnInit /\ [][FnNext]_<< vars, other_vars >>

\* -------------------------------------------------- the authorization gate
\* kernel/odbc_kernel.py LockContext
LockContext(token, policy_version, issued_at, ttl_seconds) ==
    [token |-> token, policy_version |-> policy_version,
     issued_at |-> issued_at, ttl_seconds |-> ttl_seconds]

\* LockContext.is_valid(now)
is_valid(ctx, now) == now <= ctx.issued_at + ctx.ttl_seconds

\* What kwargs.get("token") gives when the call passes no token.
NoToken == "None"

\* kernel/lock_utils.py lock_required(func), its wrapper called with the
\* keyword token: whether func is called, or PermissionError raised.
lock_required(token) ==
    IF token # "VALID" THEN [called |-> FALSE, raised |-> "PermissionError"]
    ELSE [called |-> TRUE, raised |-> "none"]

\* The latest time, the longest ttl_seconds and the number of calls of a run.
MaxTime == 3
MaxTtl == 2
MaxCalls == 3

\* A LockContext was issued at time 0, its token marked valid or not.
GateInit ==
    /\ StoreIdle
    /\ KDIdle
    /\ LamIdle
    /\ FnIdle
    /\ LateIdle
    /\ gate_now = 0
    /\ gate_ctx \in { LockContext(token, "v1", 0, ttl_seconds) :
                        token \in {"VALID", "INVALID"}, ttl_seconds \in 0..MaxTtl }
    /\ gate_ran = 0
    /\ gate_last = NoCall

\* A second passes.
GateTick ==
    /\ gate_now < MaxTime
    /\ gate_now' = gate_now + 1
    /\ UNCHANGED << vars, kd_vars, lam_vars, fn_vars, late_vars, gate_ctx, gate_ran,
                    gate_last >>

\* gateway.run(..., token=lock_ctx.token), or run(...) without the token: the
\* body of the gated function runs when the wrapper calls it.
GateRun ==
    \E token \in {NoToken, gate_ctx.token} :
      LET r == lock_required(token)
      IN /\ IF gate_last.op = "none" THEN TRUE ELSE gate_last.calls < MaxCalls
         /\ gate_ran' = IF r.called THEN gate_ran + 1 ELSE gate_ran
         /\ gate_last' = [op |-> "run", token |-> token, now |-> gate_now,
                          called |-> r.called, raised |-> r.raised,
                          ran_before |-> gate_ran,
                          calls |-> IF gate_last.op = "none" THEN 1
                                    ELSE gate_last.calls + 1]
         /\ UNCHANGED << vars, kd_vars, lam_vars, fn_vars, late_vars, gate_now,
                         gate_ctx >>

GateNext == GateTick \/ GateRun

SpecGate == GateInit /\ [][GateNext]_<< vars, other_vars >>

\* ------------------------------------------------------------ worker pool
\* async_workers: a queue of tasks, the threads of _workers that take tasks
\* from it, submit_async and shutdown_workers.
\* range(4): the threads started on import.
NumWorkers == 4

Workers == 1..NumWorkers

\* The calls of submit_async of a run.
MaxTasks == 3

\* None, the stop sentinel; a thread that runs no task holds it as its task.
NoTask == [id |-> 0, raises |-> FALSE]

\* (func, args), as submit_async puts it: func(*args) returns, or raises an
\* Exception.
Task(id, raises) == [id |-> id, raises |-> raises]

\* except Exception ... finally: the loop of worker goes on after func(*args),
\* whether it raised or not.
KeepsWorkingUnlessRaised(raised) == ~raised

KeepsWorking(raised) == TRUE

\* The module was imported: the queue is empty, every thread is about to call
\* task_queue.get(), and shutdown_workers was not called.
WkInit ==
    /\ StoreIdle
    /\ KDIdle
    /\ LamIdle
    /\ FnIdle
    /\ GateIdle
    /\ MonIdle
    /\ wk_queue = <<>>
    /\ wk_threads = [w \in Workers |-> [pc |-> "get", task |-> NoTask, sentinels |-> 0]]
    /\ wk_runs = [id \in 1..MaxTasks |-> [calls |-> 0, raised |-> FALSE]]
    /\ wk_unfinished = 0
    /\ wk_submitted = 0
    /\ wk_shutdown = [op |-> "shutdown_workers", pc |-> "not called", i |-> 0,
                      before |-> {}]

WkUnchanged == UNCHANGED << vars, kd_vars, lam_vars, fn_vars, gate_vars, mon_vars >>

\* submit_async(func, *args), from any thread and at any time.
submit_async ==
    /\ wk_submitted < MaxTasks
    /\ \E raises \in BOOLEAN :
         wk_queue' = Append(wk_queue, Task(wk_submitted + 1, raises))
    /\ wk_unfinished' = wk_unfinished + 1
    /\ wk_submitted' = wk_submitted + 1
    /\ UNCHANGED << wk_threads, wk_runs, wk_shutdown >>
    /\ WkUnchanged

\* worker, line 18: task_queue.get() blocks while the queue is empty; on None
\* the thread leaves the loop and ends.
WorkerGet(w) ==
    /\ wk_threads[w].pc = "get"
    /\ wk_queue # <<>>
    /\ LET task == Head(wk_queue)
       IN wk_threads' = [wk_threads EXCEPT ![w] =
             IF task = NoTask
             THEN [pc |-> "exited", task |-> NoTask, sentinels |-> @.sentinels + 1]
             ELSE [pc |-> "run", task |-> task, sentinels |-> @.sentinels]]
    /\ wk_queue' = Tail(wk_queue)
    /\ UNCHANGED << wk_runs, wk_unfinished, wk_submitted, wk_shutdown >>
    /\ WkUnchanged

\* worker, lines 21-27: func(*args), the except clause, task_done().
WorkerRun(w) ==
    /\ wk_threads[w].pc = "run"
    /\ LET task == wk_threads[w].task
       IN /\ wk_runs' = [wk_runs EXCEPT ![task.id] =
                [calls |-> @.calls + 1, raised |-> task.raises]]
          /\ wk_threads' = [wk_threads EXCEPT ![w] =
                [pc |-> IF KeepsWorking(task.raises) THEN "get" ELSE "dead",
                 task |-> NoTask, sentinels |-> @.sentinels]]
    /\ wk_unfinished' = wk_unfinished - 1
    /\ UNCHANGED << wk_queue, wk_submitted, wk_shutdown >>
    /\ WkUnchanged

\* shutdown_workers is called; the tasks submitted so far are those passed to
\* submit_async before the call.
ShutdownCall ==
    /\ wk_shutdown.pc = "not called"
    /\ wk_shutdown' = [wk_shutdown EXCEPT !.pc = "put", !.i = 1,
                                          !.before = 1..wk_submitted]
    /\ UNCHANGED << wk_queue, wk_threads, wk_runs, wk_unfinished, wk_submitted >>
    /\ WkUnchanged

\* shutdown_workers, lines 43-44: task_queue.put(None), once for each thread.
ShutdownPut ==
    /\ wk_shutdown.pc = "put"
    /\ wk_queue' = Append(wk_queue, NoTask)
    /\ wk_unfinished' = wk_unfinished + 1
    /\ wk_shutdown' = IF wk_shutdown.i = NumWorkers
                      THEN [wk_shutdown EXCEPT !.pc = "join", !.i = 1]
                      ELSE [wk_shutdown EXCEPT !.i = @ + 1]
    /\ UNCHANGED << wk_threads, wk_runs, wk_submitted >>
    /\ WkUnchanged

\* shutdown_workers, lines 45-46: t.join() returns once the thread has ended.
ShutdownJoin ==
    /\ wk_shutdown.pc = "join"
    /\ wk_threads[wk_shutdown.i].pc \in {"exited", "dead"}
    /\ wk_shutdown' = IF wk_shutdown.i = NumWorkers
                      THEN [wk_shutdown EXCEPT !.pc = "returned"]
                      ELSE [wk_shutdown EXCEPT !.i = @ + 1]
    /\ UNCHANGED << wk_queue, wk_threads, wk_runs, wk_unfinished, wk_submitted >>
    /\ WkUnchanged

WkNext ==
    \/ submit_async
    \/ \E w \in Workers : WorkerGet(w)
    \/ \E w \in Workers : WorkerRun(w)
    \/ ShutdownCall
    \/ ShutdownPut
    \/ ShutdownJoin

\* Every thread that can take a step takes one in the end, the threads of the
\* pool and the thread inside shutdown_workers; func(*args) ends.
WkFairness ==
    /\ \A w \in Workers : WF_<< vars, other_vars >>(WorkerGet(w))
    /\ \A w \in Workers : WF_<< vars, other_vars >>(WorkerRun(w))
    /\ WF_<< vars, other_vars >>(ShutdownPut)
    /\ WF_<< vars, other_vars >>(ShutdownJoin)

SpecWorkers == WkInit /\ [][WkNext]_<< vars, other_vars >> /\ WkFairness

\* ------------------------------------------------------ compliance monitor
\* SystemInitializer: the subsystems registered, initialize_subsystem, and the
\* loop of the ComplianceMonitor thread. Time is counted in waits of the loop,
\* shutdown_event.wait(30): one unit is 30 seconds.
Subsystems == {"ARCHON", "THONOC"}

\* The decisions of run_odbc_kernel.
Decisions == {"locked", "reject", "quarantine"}

\* SubsystemAuth.max_failures
max_failures == 3

\* timedelta(minutes=1), in waits of 30 seconds.
RetryDelay == 2

\* The longest compliance_interval registered, the latest time of a run, and
\* the failures initialize_subsystem counts in a run.
MaxInterval == 2
MaxNow == 5
MaxFailureCount == 4

\* None, for a datetime.
NoTime == -1

\* register_subsystem(name, compliance_interval): the SubsystemAuth it stores.
\* retry is history: the last decision on the subsystem was a failed
\* revalidation that scheduled a retry.
SubsystemAuth(name, compliance_interval) ==
    [name |-> name, state |-> "UNINITIALIZED", tlm_token |-> "None",
     last_validation |-> NoTime, compliance_interval |-> compliance_interval,
     next_check |-> NoTime, failure_count |-> 0, max_failures |-> max_failures,
     retry |-> FALSE]

\* initialize_subsystem, lines 97-118: auth after the decision of the kernel.
initialize_subsystem(auth, decision, now) ==
    IF decision = "locked"
    THEN [auth EXCEPT !.state = "AUTHORIZED", !.tlm_token = "token",
                      !.last_validation = now,
                      !.next_check = now + auth.compliance_interval,
                      !.failure_count = 0, !.retry = FALSE]
    ELSE IF decision = "quarantine"
    THEN [auth EXCEPT !.state = "QUARANTINED", !.retry = FALSE]
    ELSE [auth EXCEPT !.state = "REJECTED", !.failure_count = @ + 1,
                      !.retry = FALSE]

\* _revalidate_subsystem: auth after the decision of the kernel.
_revalidate_subsystem(auth, decision, now) ==
    IF decision = "locked"
    THEN [auth EXCEPT !.state = "AUTHORIZED", !.tlm_token = "token",
                      !.last_validation = now,
                      !.next_check = now + auth.compliance_interval,
                      !.failure_count = 0, !.retry = FALSE]
    ELSE IF auth.failure_count + 1 >= auth.max_failures
    THEN [auth EXCEPT !.failure_count = @ + 1, !.state = "QUARANTINED",
                      !.tlm_token = "None", !.retry = FALSE]
    ELSE [auth EXCEPT !.failure_count = @ + 1, !.state = "REJECTED",
                      !.tlm_token = "None", !.next_check = now + RetryDelay,
                      !.retry = TRUE]

\* _compliance_monitor_loop, line 154: the loop revalidates this subsystem now.
Revalidates(auth, now) ==
    /\ auth.state = "AUTHORIZED"
    /\ auth.next_check # NoTime
    /\ now >= auth.next_check

\* The subsystems are registered and start_compliance_monitoring was called.
MonInit ==
    /\ StoreIdle
    /\ KDIdle
    /\ LamIdle
    /\ FnIdle
    /\ GateIdle
    /\ WkIdle
    /\ mon_now = 0
    /\ \E intervals \in [Subsystems -> 1..MaxInterval] :
         mon_subsystems = [name \in Subsystems |-> SubsystemAuth(name, intervals[name])]
    /\ mon_pass = NoCall

MonUnchanged == UNCHANGED << vars, kd_vars, lam_vars, fn_vars, gate_vars, wk_vars >>

\* system_init.initialize_subsystem(name, config), from the main thread.
MonInitialize ==
    /\ \E name \in Subsystems, decision \in Decisions :
         /\ decision = "reject" => mon_subsystems[name].failure_count < MaxFailureCount
         /\ mon_subsystems' = [mon_subsystems EXCEPT ![name] =
                                  initialize_subsystem(@, decision, mon_now)]
    /\ UNCHANGED << mon_now, mon_pass >>
    /\ MonUnchanged

\* One pass of the loop of _compliance_monitor_loop, lines 149-158: every
\* subsystem the loop selects is revalidated, then the thread waits 30 seconds.
\* mon_pass records the subsystems whose retry was due at the pass and those
\* the pass revalidated.
MonPass ==
    /\ mon_now < MaxNow
    /\ \E decisions \in [Subsystems -> Decisions] :
         mon_subsystems' = [name \in Subsystems |->
             IF Revalidates(mon_subsystems[name], mon_now)
             THEN _revalidate_subsystem(mon_subsystems[name], decisions[name], mon_now)
             ELSE mon_subsystems[name]]
    /\ mon_pass' = [op |-> "pass", now |-> mon_now,
                    retry_due |-> { name \in Subsystems :
                                      /\ mon_subsystems[name].retry
                                      /\ mon_now >= mon_subsystems[name].next_check },
                    revalidated |-> { name \in Subsystems :
                                        Revalidates(mon_subsystems[name], mon_now) }]
    /\ mon_now' = mon_now + 1
    /\ MonUnchanged

MonNext == MonInitialize \/ MonPass

SpecMonitor == MonInit /\ [][MonNext]_<< vars, other_vars >>

\* ------------------------------------------------------------------- views
\* Every relationship the cache holds and every row of the relations table, as
\* (source, (relation_type, target, metadata)): the relations the store holds.
CachedRelationships ==
    UNION { { <<nodes[i].node_id, nodes[i].relationships[j]>> :
                j \in DOMAIN nodes[i].relationships } : i \in DOMAIN nodes }

PersistedRelationships ==
    { <<db_relations[i].source_id,
        <<db_relations[i].relation_type, db_relations[i].target_id,
          db_relations[i].metadata>> >> : i \in DOMAIN db_relations }

\* The call just made was a mutating call of this name.
JustCalled(op) == ops' = ops + 1 /\ last'.op = op

\* relations_of(node_id, relation_type, direction), as the set of the
\* (source, target, type) it returns.
RelationKeys(node_id, relation_type, direction) ==
    LET rels == get_relations(StoreState, node_id, relation_type, direction).relations
    IN { RelationKey(rels[i]) : i \in DOMAIN rels }

\* ------------------------------------------------------------------ claims
\* C1: add_relation in which the source node or the target node does not
\* exist returns the error (False) and adds no relation: the relations table
\* is unchanged, every node the cache held keeps its relationships, and the
\* cache holds no relationship that it or the table did not hold before.
C1_MissingEndpointAddsNothing ==
    [][ (JustCalled("add_relation") /\ last'.missing) =>
          /\ last'.ret = FALSE
          /\ db_relations' = db_relations
          /\ \A i \in DOMAIN nodes : nodes'[i] = nodes[i]
          /\ CachedRelationships' \subseteq
                 CachedRelationships \cup PersistedRelationships ]_vars

\* add_relation was called with a missing endpoint while relations existed,
\* and returned False.
C1_Witness ==
    /\ last.op = "add_relation"
    /\ last.missing
    /\ ~last.ret
    /\ CachedRelationships # {}

\* C2: after add_relation(A, B, kind) returned True, relations_of(A) and
\* relations_of(B, direction = "incoming") include (A, kind, B) for the rest
\* of the session.
C2_AddedRelationVisible ==
    ~closed =>
      \A t \in added.relations :
        /\ t \in RelationKeys(t[1], AnyType, "outgoing")
        /\ t \in RelationKeys(t[2], AnyType, "incoming")

\* C3: the cache and the relations table each hold at most one relation for a
\* (source_id, kind, target_id).
C3_OneRelationPerTriple ==
    /\ \A i \in DOMAIN nodes :
         \A j, k \in DOMAIN nodes[i].relationships :
           (/\ nodes[i].relationships[j][1] = nodes[i].relationships[k][1]
            /\ nodes[i].relationships[j][2] = nodes[i].relationships[k][2]) => j = k
    /\ \A j, k \in DOMAIN db_relations :
         (/\ db_relations[j].source_id = db_relations[k].source_id
          /\ db_relations[j].relation_type = db_relations[k].relation_type
          /\ db_relations[j].target_id = db_relations[k].target_id) => j = k

\* C4: relations_of never returns two relations with the same
\* (source_id, target_id, kind), whatever the node, the kind filter and the
\* direction, in every session.
C4_RelationsOfDeduplicated ==
    \A node_id \in NodeIds, relation_type \in RelationTypes \cup {AnyType},
       direction \in Directions :
      LET rels == get_relations(StoreState, node_id, relation_type, direction).relations
      IN \A j, k \in DOMAIN rels :
           RelationKey(rels[j]) = RelationKey(rels[k]) => j = k

\* The state right after a store was opened again on the database file with
\* persistence on: nothing but reads has happened in the session.
JustReopened == session > 1 /\ Persistent /\ last.op = "init"

\* C5: every node and every relation (source, target, kind, weight and
\* metadata) the database accepted in an earlier session is returned unchanged
\* by get_node and relations_of once the store is opened again.
C5_WrittenSurvivesReopen ==
    JustReopened =>
      /\ \A n \in written.nodes :
           LET node == get_node(StoreState, n.id).node
           IN node # None /\ NodeToDict(node) = n
      /\ \A r \in written.relations :
           LET rels == get_relations(StoreState, r.source_id, AnyType,
                                     "outgoing").relations
           IN \E i \in DOMAIN rels : rels[i] = r

\* C6: with persistence on, every node get_node returns has exactly one row
\* of its id in the nodes table.
C6_ExactlyOneRowPerNode ==
    Persistent =>
      \A node_id \in NodeIds :
        get_node(StoreState, node_id).node # None =>
          Cardinality({ i \in DOMAIN db_nodes : db_nodes[i].id = node_id }) = 1

\* The query_term values tried in find_by_query.
QueryTerms == { <<"b">>, <<"a">>, <<"A", "B">> }

\* What the reads return: get_node for every id, relations_of for every id,
\* kind and direction, find_by_label for every term and limit, and the points
\* the two indices hold for the nearest_by_* searches.
Observable ==
    [get_node |-> [node_id \in NodeIds |-> get_node(StoreState, node_id).node],
     relations_of |->
        [q \in NodeIds \X (RelationTypes \cup {AnyType}) \X Directions |->
            get_relations(StoreState, q[1], q[2], q[3]).relations],
     find_by_label |->
        [q \in QueryTerms \X (0..MaxNodes) |-> find_by_query(StoreState, q[1], q[2])],
     nearest_by_trinity |-> SeqToSet(trinity_index),
     nearest_by_position |-> SeqToSet(complex_index)]

\* C7: an operation whose database write failed leaves nothing a later read
\* can observe.
C7_FailedOperationUnobservable ==
    [][ (ops' = ops + 1 /\ last'.failed) => Observable' = Observable ]_vars

C9_EphemeralObservesAll ==
    (~persistence_enabled /\ ~closed) =>
      /\ \A node_id \in added.nodes :
           LET node == get_node(StoreState, node_id).node
           IN /\ node # None
              /\ node_id \in SeqToSet(find_by_query(StoreState, node.label, MaxNodes))
              /\ <<node_id, node.trinity_vector>> \in SeqToSet(trinity_index)
              /\ <<node_id, node.c>> \in SeqToSet(complex_index)
      /\ \A t \in added.relations :
           /\ t \in RelationKeys(t[1], AnyType, "outgoing")
           /\ t \in RelationKeys(t[1], AnyType, "both")
           /\ t \in RelationKeys(t[2], AnyType, "incoming")
           /\ t \in RelationKeys(t[2], AnyType, "both")
      /\ session = 1 => (db_nodes = <<>> /\ db_relations = <<>>)

\* C10: the cache holds at most cache_size entries.
C10_CacheBounded == Len(nodes) <= cache_size

\* C11: when add_relation succeeds on a (source, type, target) that already
\* has a relation, the relation's metadata afterwards is the metadata it had
\* merged with what the caller supplied (the strength included): keys the
\* caller did not supply keep their values, and the caller's win
\* (supplied @@ existing).
C11_MetadataMerged ==
    [][ (JustCalled("add_relation") /\ last'.ret) =>
          \A i \in DOMAIN nodes : \A j \in DOMAIN nodes[i].relationships :
            LET old == nodes[i].relationships[j]
                new == nodes'[i].relationships[j]
            IN \/ new = old
               \/ \E input \in RelationInputs :
                    /\ new[1] = input.relation_type
                    /\ new[3] = DictSet(input.metadata, "strength", input.strength)
                                   @@ old[3] ]_vars

C13_NearestDeduplicated ==
    \A input \in NodeInputs, k \in 1..(MaxNodes + 1) :
      LET by_trinity == find_nearest_by_trinity(StoreState, input.trinity, k)
          by_position == find_nearest_by_position(StoreState, input.c, k)
      IN /\ \A i, j \in DOMAIN by_trinity :
              i # j => by_trinity[i][1] # by_trinity[j][1]
         /\ \A i, j \in DOMAIN by_position :
              i # j => by_position[i][1] # by_position[j][1]

\* C14: k_nearest_neighbors returns its pairs in ascending order of distance,
\* and pairs at the same distance in ascending order of node id.
C14_SortedByDistanceThenId ==
    \A i, j \in DOMAIN kd_last.found :
      i < j =>
        \/ kd_last.found[i][2] < kd_last.found[j][2]
        \/ /\ kd_last.found[i][2] = kd_last.found[j][2]
           /\ kd_last.found[i][1] <= kd_last.found[j][1]

\* C15: in a store opened again on the database file, for every node the
\* database accepted, with trinity vector v and position c,
\* find_nearest_by_trinity(v, 1) and find_nearest_by_position(c, 1) each
\* return one pair, at distance 0.
C15_IndicesRebuiltOnReopen ==
    (session > 1 /\ Persistent) =>
      \A n \in written.nodes :
        LET by_trinity == find_nearest_by_trinity(StoreState, n.trinity, 1)
            by_position == find_nearest_by_position(StoreState, n.c, 1)
        IN /\ Len(by_trinity) = 1 /\ by_trinity[1][2] = 0
           /\ Len(by_position) = 1 /\ by_position[1][2] = 0

\* A store was just opened again on a database that holds two nodes with
\* different coordinates; nothing is cached yet.
C15_Witness ==
    /\ JustReopened
    /\ nodes = <<>>
    /\ \E n, m \in written.nodes : n.trinity # m.trinity /\ n.c # m.c
    /\ Len(trinity_index) = 2
    /\ Len(complex_index) = 2

\* C16: when apply_banach_tarski(node_id, pieces) on a node that exists has
\* just returned (last.before holds what the reads returned before the call),
\* it has returned pieces ids of nodes that did not exist before and exist
\* now, and no other node is new; the relations the store returns have grown
\* by exactly 2 * pieces,
\* which are source -> piece of type decomposition and piece -> source of type
\* derived_from for each piece.  With pieces = 0 the list is empty and no node
\* and no relation is new.
C16_DecomposeCounts ==
    (last.op = "apply_banach_tarski" /\ ~last.missing) =>
      LET new_node_ids == last.ret
          source == last.node_id
          pieces == SeqToSet(new_node_ids)
      IN /\ Len(new_node_ids) = last.pieces
         /\ Cardinality(pieces) = last.pieces
         /\ Reads.found \ last.before.found = pieces
         /\ Reads.count = last.before.count + 2 * last.pieces
         /\ Reads.keys \ last.before.keys =
               { <<source, p, "decomposition">> : p \in pieces }
                 \cup { <<p, source, "derived_from">> : p \in pieces }

\* apply_banach_tarski has just made two pieces of a piece.
C16_Witness ==
    /\ last.op = "apply_banach_tarski"
    /\ last.pieces = 2
    /\ Len(last.ret) = 2
    /\ last.node_id # 1
    /\ ~last.missing

\* C17: find_by_query(query_term, limit) returns at most limit ids, no id
\* twice, each the id of a node whose label contains query_term whatever the
\* case of the letters, for every limit >= 0 and wherever the nodes are.
C17_FindByLabelBounded ==
    \A query_term \in QueryTerms \cup { <<"_">> }, limit \in 0..MaxNodes :
      LET found == find_by_query(StoreState, query_term, limit)
      IN /\ Len(found) <= limit
         /\ \A i, j \in DOMAIN found : i # j => found[i] # found[j]
         /\ \A i \in DOMAIN found :
              LET node == get_node(StoreState, found[i]).node
              IN /\ node # None
                 /\ Contains(LowerAll(node.label), LowerAll(query_term))

RECURSIVE Nameless(_, _)
\* The expression with its bound variables named by their binders' distance
\* (binders: the names bound around it, the innermost first) and its free
\* variables by their names: alpha-equivalent expressions give the same.
Nameless(expr, binders) ==
    IF expr.type = "var"
    THEN LET at == { i \in DOMAIN binders : binders[i] = expr.name }
         IN IF at = {} THEN [type |-> "free", name |-> expr.name]
            ELSE [type |-> "bound", index |-> CHOOSE i \in at : \A j \in at : i <= j]
    ELSE IF expr.type = "lambda"
    THEN [type |-> "lambda", var_type |-> expr.var_type,
          body |-> Nameless(expr.body, <<expr.var_name>> \o binders)]
    ELSE IF expr.type = "app"
    THEN [type |-> "app", func |-> Nameless(expr.func, binders),
          arg |-> Nameless(expr.arg, binders)]
    ELSE expr

RECURSIVE ReplaceFree(_, _, _)
\* The nameless expression with its free variable var_name replaced by value.
ReplaceFree(expr, var_name, value) ==
    IF expr.type = "free"
    THEN IF expr.name = var_name THEN value ELSE expr
    ELSE IF expr.type = "lambda"
    THEN [expr EXCEPT !.body = ReplaceFree(expr.body, var_name, value)]
    ELSE IF expr.type = "app"
    THEN [expr EXCEPT !.func = ReplaceFree(expr.func, var_name, value),
                      !.arg = ReplaceFree(expr.arg, var_name, value)]
    ELSE expr

\* C18: substitute(expr, var_name, value) never captures: what it returns
\* binds as expr does, with value, its free variables still free, in the
\* place of every free var_name; and an abstraction that binds var_name is
\* returned as it is.
C18_SubstitutionNeverCaptures ==
    lam_last.op = "substitute" =>
      /\ Nameless(lam_last.expr, <<>>) =
            ReplaceFree(Nameless(lam_expr, <<>>), lam_last.var_name,
                        Nameless(lam_last.value, <<>>))
      /\ (lam_expr.type = "lambda" /\ lam_expr.var_name = lam_last.var_name) =>
            lam_last.expr = lam_expr

\* C19: when evaluate reached its depth limit, it has raised EvaluationTimeout
\* instead of returning an expression.
C19_ExhaustedBudgetIsAnError ==
    (lam_last.op = "evaluate" /\ lam_last.limit_reached) =>
      lam_last.raised = "EvaluationTimeout"

\* C20: evaluate returns a value, a variable, a sufficient-reason operator and
\* an abstraction as they are.
C20_NormalFormsEvaluateToThemselves ==
    (lam_last.op = "evaluate"
       /\ lam_expr.type \in {"value", "var", "sr", "lambda"}) =>
      lam_last.expr = lam_expr

\* C21: check_type gives an application (f a) a type only when the type of f
\* is a function type and the type of a is its domain, and the type it gives
\* is then the codomain; in every other case it returns the type error.
C21_ApplicationTyping ==
    (lam_last.op = "check_type" /\ lam_last.expr.type = "app") =>
      LET f == check_type(lam_last.expr.func, type_env).type
          a == check_type(lam_last.expr.arg, type_env).type
      IN IF f.class = "FunctionType" /\ a # TypeNone /\ a = f.domain
         THEN lam_last.type = f.codomain
         ELSE lam_last.type = TypeNone

\* C21: an application of an abstraction has been given a type.
C21_Witness ==
    /\ lam_last.op = "check_type"
    /\ lam_last.expr.type = "app"
    /\ lam_last.type # TypeNone
    /\ lam_last.expr.func.type = "lambda"

RECURSIVE FreeOccurrenceTypes(_, _)
\* The types check_type gives the free occurrences of the variable var_name
\* in expr: their annotations.
FreeOccurrenceTypes(expr, var_name) ==
    IF expr.type = "var"
    THEN IF expr.name = var_name THEN { OntologicalType(expr.onto_type) } ELSE {}
    ELSE IF expr.type = "lambda"
    THEN IF expr.var_name = var_name THEN {}
         ELSE FreeOccurrenceTypes(expr.body, var_name)
    ELSE IF expr.type = "app"
    THEN FreeOccurrenceTypes(expr.func, var_name)
           \cup FreeOccurrenceTypes(expr.arg, var_name)
    ELSE {}

\* C22: when expr has a type, and value has the type of the variable var_name
\* in expr, substitute(expr, var_name, value) has the type of expr.
C22_SubjectReduction ==
    (lam_last.op = "check_type" /\ lam_last.after.op = "substitute") =>
      LET t == check_type(lam_expr, type_env).type
          tv == check_type(lam_last.after.value, type_env).type
      IN (/\ t # TypeNone
          /\ \A tx \in FreeOccurrenceTypes(lam_expr, lam_last.after.var_name) :
                tv = tx)
           => lam_last.type = t

RECURSIVE EscapesWithin(_, _, _, _)
\* One of the first n values of z <- z*z + c from z on exceeds the radius.
EscapesWithin(c, z, n, radius) ==
    /\ n > 0
    /\ \/ AbsGreater(SquareAdd(z, c), radius)
       \/ EscapesWithin(c, SquareAdd(z, c), n - 1, radius)

\* C23: an escape-time positioner returns iterations between 0 and max_iter,
\* and in_set exactly when none of the max_iter values of z <- z*z + c has
\* exceeded the escape radius.
C23_EscapeTime ==
    /\ fn_last.op = "compute_position" =>
         /\ fn_last.ret.iterations \in 0..fn_last.max_iter
         /\ fn_last.ret.in_set <=>
              ~EscapesWithin(to_complex(fn_last.trinity), <<0, 0>>,
                             fn_last.max_iter, fn_last.escape_radius)
    /\ fn_last.op = "_calc_orbit_props" =>
         /\ fn_last.ret.depth \in 0..fn_last.ret.max_iter
         /\ fn_last.ret.in_set <=>
              ~EscapesWithin(fn_last.c, <<0, 0>>, fn_last.ret.max_iter, 2)

\* The coherence of the trinity vector tv by its definition: g / (e*t), at
\* most 1, when e*t > 0, and 0 otherwise.
Coherence(tv) ==
    LET ideal == tv[1] * tv[3]
    IN IF ideal > 0
       THEN IF 100 * tv[2] >= ideal THEN Quotient(1, 1)
            ELSE Quotient(100 * tv[2], ideal)
       ELSE Quotient(0, 1)

\* The status of the first rule of the classifier that matches tv.
FirstMatchingRule(tv) ==
    LET e == tv[1]
        t == tv[3]
    IN IF t >= 95 /\ e >= 90 /\ ~QLess(Coherence(tv), Quotient(9, 10))
       THEN "necessary"
       ELSE IF t > 50 /\ e > 50 THEN "actual"
       ELSE IF t > 5 /\ e > 5 THEN "possible"
       ELSE "impossible"

\* C24: a modal classifier returns, for every trinity vector, the status of
\* the first matching rule: necessary for t >= 0.95, e >= 0.90 and coherence
\* >= 0.90, actual for t > 0.50 and e > 0.50, possible for t > 0.05 and
\* e > 0.05, impossible otherwise.
C24_ModalStatus ==
    /\ fn_last.op = "trinity_to_modal" => fn_last.ret = FirstMatchingRule(fn_last.tv)
    /\ fn_last.op = "calculate_modal_status" =>
         fn_last.ret[1] = FirstMatchingRule(fn_last.tv)

\* C25: the coherence computed for a trinity vector lies in [0, 1], and is 1
\* whenever g >= e*t.
C25_CoherenceRange ==
    fn_last.op \in {"get_coherence", "calculate_modal_status"} =>
      LET coh == IF fn_last.op = "get_coherence" THEN fn_last.ret
                 ELSE fn_last.ret[2]
          tv == fn_last.tv
      IN /\ ~QLess(coh, Quotient(0, 1))
         /\ ~QLess(Quotient(1, 1), coh)
         /\ 100 * tv[2] >= tv[1] * tv[3] => QEqual(coh, Quotient(1, 1))

\* C26: a gated operation whose token is absent, marked invalid or expired
\* (the time later than issued_at + ttl) is rejected, its body not run and
\* nothing changed; the body runs only for a present, unexpired token.
C26_GateRejectsUnauthorized ==
    gate_last.op = "run" =>
      LET authorized == /\ gate_last.token # NoToken
                        /\ gate_last.token = "VALID"
                        /\ is_valid(gate_ctx, gate_last.now)
      IN /\ ~authorized =>
              /\ gate_last.raised = "PermissionError"
              /\ gate_ran = gate_last.ran_before
         /\ gate_ran > gate_last.ran_before => authorized

\* C27: store_node of a node whose id the nodes table already holds leaves
\* the rows of the relations table as they are: none is removed or altered.
C27_RestoreKeepsRelations ==
    [][ JustCalled("store_node") => db_relations' = db_relations ]_vars

RECURSIVE Smallest(_, _)
\* The m smallest of the numbers of the sequence s, in ascending order.
Smallest(s, m) ==
    IF m = 0 \/ s = <<>> THEN <<>>
    ELSE LET i == CHOOSE i \in DOMAIN s : \A j \in DOMAIN s : s[i] <= s[j]
         IN <<s[i]>> \o Smallest(SubSeq(s, 1, i - 1) \o SubSeq(s, i + 1, Len(s)), m - 1)

\* The distance from point to every point inserted into the tree.
AllDistances(point) ==
    [i \in DOMAIN kd_index |-> sqrt(dist_sq(kd_index[i][2], point))]

\* C28: the distances k_nearest_neighbors(point, k) returns, k >= 1, are the
\* min(k, n) smallest of the distances from point to the n points inserted,
\* repeated points and ids included.
C28_KNearestExact ==
    kd_last # NoQuery =>
      [i \in DOMAIN kd_last.found |-> kd_last.found[i][2]]
        = Smallest(AllDistances(kd_last.point), kd_last.k)

\* C28: of three points inserted, one of them twice, the two nearest were
\* asked for and found, neither of them under the id of the root.
C28_Witness ==
    /\ kd_last # NoQuery
    /\ Len(kd_index) = 3
    /\ kd_last.k = 2
    /\ Len(kd_last.found) = 2
    /\ \E i, j \in DOMAIN kd_index : i < j /\ kd_index[i][2] = kd_index[j][2]
    /\ \A i \in DOMAIN kd_last.found : kd_last.found[i][1] # kd_index[1][1]

\* The call of shutdown_workers has returned.
ShutdownReturned == wk_shutdown.pc = "returned"

\* No task was run twice and no thread took two sentinels; once
\* shutdown_workers has returned, every task submitted before it was called has
\* been run once and every thread has taken one sentinel.
GracefulSoFar ==
    /\ \A id \in DOMAIN wk_runs : wk_runs[id].calls <= 1
    /\ \A w \in DOMAIN wk_threads : wk_threads[w].sentinels <= 1
    /\ ShutdownReturned =>
         /\ \A id \in wk_shutdown.before : wk_runs[id].calls = 1
         /\ \A w \in DOMAIN wk_threads : wk_threads[w].sentinels = 1

\* C29: shutdown_workers, once called, returns; when it has returned every task
\* passed to submit_async before the call has been run exactly once, tasks that
\* raise included, and every thread of the pool has taken exactly one stop
\* sentinel.
C29_GracefulShutdown ==
    /\ []GracefulSoFar
    /\ (wk_shutdown.pc = "put") ~> ShutdownReturned

\* C29: shutdown_workers has returned after three tasks were submitted before
\* it was called; each was run once, the second of them raised, and every
\* thread has ended on a sentinel.
C29_Witness ==
    /\ ShutdownReturned
    /\ wk_shutdown.before = 1..3
    /\ \A id \in 1..3 : wk_runs[id].calls = 1
    /\ wk_runs[2].raised
    /\ \A w \in DOMAIN wk_threads : wk_threads[w].pc = "exited"

\* C30: a pass of the monitor revalidates every subsystem whose revalidation
\* failed with fewer than max_failures failures and whose retry time, one
\* minute after the failure, has passed.
C30_RetryRevalidated ==
    mon_pass.op = "pass" => mon_pass.retry_due \subseteq mon_pass.revalidated

====
